---- MODULE Spec2Model ----
(***************************************************************************)
(* Schedule store, overlap detector and template deriver of                *)
(* pantallita_manager.py.                                                  *)
(*                                                                         *)
(* A Python str is a sequence of one-character strings, so that split,     *)
(* int, str, zfill, join, set and the `in' test are computed as Python     *)
(* computes them.  A schedule record is a dict object: the store maps a    *)
(* calendar key to a list of references into the heap.                     *)
(***************************************************************************)
EXTENDS Integers, Sequences, FiniteSets, TLC

VARIABLES
    schedules,   \* manager.schedules: calendar key -> list of object references
    heap,        \* object reference -> schedule dict
    localFile,   \* rows of schedules/schedules.csv, or Absent
    args,        \* arguments of the check_schedule_overlap call
    overlaps,    \* list returned by the last check_schedule_overlap call
    lastOp,      \* the last operation, its inputs and its outcome
    steps,       \* number of menu operations run so far
    result,      \* value returned by the last call of a function applied on its own
    events,      \* EventManager.events: list of rows
    today        \* the date datetime.now() falls on

vars == <<schedules, heap, localFile, args, overlaps, lastOp, steps, result, events, today>>

----------------------------------------------------------------------------
(* Python str / int primitives *)

Digits == <<"0", "1", "2", "3", "4", "5", "6", "7", "8", "9">>

\* characters of the model in code-point order
CodeOrder ==
    <<"+", ",", "-", "0", "1", "2", "3", "4", "5", "6", "7", "8", "9", ":",
      "A", "B", "F", "M", "S", "T", "W",
      "a", "b", "c", "d", "e", "f", "h", "i", "l", "m", "n", "o", "p", "r",
      "t", "u", "x">>

Ord(c) == CHOOSE i \in 1..Len(CodeOrder) : CodeOrder[i] = c

IsDigit(c) == c \in {"0", "1", "2", "3", "4", "5", "6", "7", "8", "9"}

DigitOf == [c \in {Digits[i] : i \in 1..10} |-> (CHOOSE i \in 1..10 : Digits[i] = c) - 1]

DigitVal(c) == DigitOf[c]

RECURSIVE DigitsVal(_)
DigitsVal(s) ==
    IF s = <<>> THEN 0
    ELSE 10 * DigitsVal(SubSeq(s, 1, Len(s) - 1)) + DigitVal(s[Len(s)])

IntBody(s) == IF s # <<>> /\ s[1] \in {"+", "-"} THEN Tail(s) ELSE s

\* int(s) does not raise ValueError
int_ok(s) ==
    /\ IntBody(s) # <<>>
    /\ \A i \in 1..Len(IntBody(s)) : IsDigit(IntBody(s)[i])

\* int(s)
int(s) == IF s[1] = "-" THEN 0 - DigitsVal(IntBody(s)) ELSE DigitsVal(IntBody(s))

RECURSIVE nat_str(_)
nat_str(n) ==
    IF n < 10 THEN <<Digits[n + 1]>>
    ELSE nat_str(n \div 10) \o <<Digits[(n % 10) + 1]>>

\* str(n) for an int n
str(n) == IF n < 0 THEN <<"-">> \o nat_str(0 - n) ELSE nat_str(n)

RECURSIVE Zeros(_)
Zeros(k) == IF k <= 0 THEN <<>> ELSE <<"0">> \o Zeros(k - 1)

\* s.zfill(width)
zfill(s, width) ==
    IF Len(s) >= width THEN s
    ELSE IF s # <<>> /\ s[1] \in {"+", "-"}
         THEN <<s[1]>> \o Zeros(width - Len(s)) \o Tail(s)
         ELSE Zeros(width - Len(s)) \o s

\* s.split(sep) for a one-character separator
RECURSIVE split(_, _)
split(s, sep) ==
    IF \A i \in 1..Len(s) : s[i] # sep THEN <<s>>
    ELSE LET i == CHOOSE k \in 1..Len(s) :
                      s[k] = sep /\ \A j \in 1..(k - 1) : s[j] # sep
         IN  <<SubSeq(s, 1, i - 1)>> \o split(SubSeq(s, i + 1, Len(s)), sep)

\* sep.join(parts)
RECURSIVE join(_, _)
join(parts, sep) ==
    IF parts = <<>> THEN <<>>
    ELSE IF Len(parts) = 1 THEN parts[1]
    ELSE parts[1] \o sep \o join(Tail(parts), sep)

\* set(s)
set(s) == {s[i] : i \in 1..Len(s)}

\* sorted(S) for a set of characters
RECURSIVE sorted(_)
sorted(S) ==
    IF S = {} THEN <<>>
    ELSE LET c == CHOOSE x \in S : \A y \in S : Ord(x) <= Ord(y)
         IN  <<c>> \o sorted(S \ {c})

\* h, m = map(int, t.split(':'))
parse_time(t) ==
    LET parts == split(t, ":")
    IN  IF Len(parts) = 2 /\ int_ok(parts[1]) /\ int_ok(parts[2])
        THEN [ok |-> TRUE, h |-> int(parts[1]), m |-> int(parts[2])]
        ELSE [ok |-> FALSE, h |-> 0, m |-> 0]

----------------------------------------------------------------------------
(* Configuration *)

VALID_DAYS == <<"0", "1", "2", "3", "4", "5", "6">>

DAY_NAMES ==
    ("0" :> <<"M", "o", "n">>) @@ ("1" :> <<"T", "u", "e">>) @@
    ("2" :> <<"W", "e", "d">>) @@ ("3" :> <<"T", "h", "u">>) @@
    ("4" :> <<"F", "r", "i">>) @@ ("5" :> <<"S", "a", "t">>) @@
    ("6" :> <<"S", "u", "n">>)

\* an optional argument: None, or a str
None == [given |-> FALSE, value |-> <<>>]
Some(s) == [given |-> TRUE, value |-> s]

\* Python truth value of an optional str
Truthy(x) == x.given /\ x.value # <<>>

Absent == [exists |-> FALSE, rows |-> <<>>]

DefaultKey == <<"d", "e", "f", "a", "u", "l", "t">>

\* the schedule dict built by _load_schedule_file and add_schedule
Schedule(name, days, sh, sm, eh, em) ==
    [name |-> name, enabled |-> <<"1">>, days |-> days,
     start_hour |-> sh, start_min |-> sm, end_hour |-> eh, end_min |-> em,
     image |-> <<"a">>, progressbar |-> <<"1">>]

----------------------------------------------------------------------------
(* ScheduleValidator and validate_image *)

\* the text of an f-string field
RECURSIVE Text(_)
Text(s) == IF s = <<>> THEN "" ELSE s[1] \o Text(Tail(s))

\* not s.strip()
is_blank(s) == \A i \in 1..Len(s) : s[i] = " "

\* s.endswith(suffix)
endswith(s, suffix) ==
    Len(s) >= Len(suffix) /\ SubSeq(s, Len(s) - Len(suffix) + 1, Len(s)) = suffix

BmpSuffix == <<".", "b", "m", "p">>

\* validate_image(image_name, image_type) against the .bmp files found in
\* the images folder
validate_image(image_name, available_images) ==
    IF available_images = {}
    THEN IF ~endswith(image_name, BmpSuffix)
         THEN [valid |-> FALSE, msg |-> "Image must be a .bmp file"]
         ELSE [valid |-> TRUE, msg |-> "OK (couldn't verify against local folder)"]
    ELSE IF image_name \notin available_images
    THEN [valid |-> FALSE, msg |-> "Image '" \o Text(image_name) \o "' not found in folder"]
    ELSE [valid |-> TRUE, msg |-> "OK"]

validate_schedule_name(name) ==
    IF name = <<>> \/ is_blank(name)
    THEN [valid |-> FALSE, msg |-> "Schedule name cannot be empty"]
    ELSE IF Len(name) > 30
    THEN [valid |-> FALSE, msg |-> "Schedule name too long (max 30 chars)"]
    ELSE [valid |-> TRUE, msg |-> "OK"]

\* the check of the characters alone
validate_days_any_count(days_str) ==
    IF days_str = <<>> \/ is_blank(days_str)
    THEN [valid |-> FALSE, msg |-> "Days cannot be empty"]
    ELSE IF \E i \in 1..Len(days_str) : days_str[i] \notin set(VALID_DAYS)
    THEN [valid |-> FALSE, msg |-> "Days must contain only 1-7"]
    ELSE [valid |-> TRUE, msg |-> "OK"]

validate_days(days_str) ==
    IF days_str = <<>> \/ is_blank(days_str)
    THEN [valid |-> FALSE, msg |-> "Days cannot be empty"]
    ELSE IF \E i \in 1..Len(days_str) : days_str[i] \notin set(VALID_DAYS)
    THEN LET i == CHOOSE k \in 1..Len(days_str) :
                      /\ days_str[k] \notin set(VALID_DAYS)
                      /\ \A j \in 1..(k - 1) : days_str[j] \in set(VALID_DAYS)
         IN  [valid |-> FALSE,
              msg |-> "Days must contain only 1-7 (found '" \o days_str[i] \o "')"]
    ELSE IF Cardinality(set(days_str)) # Len(days_str)
    THEN [valid |-> FALSE, msg |-> "Days contains duplicates"]
    ELSE [valid |-> TRUE, msg |-> "OK"]

\* re.match(r'^\d{1,2}:\d{2}$', time_str)
IsTimeFormat(time_str) ==
    LET parts == split(time_str, ":")
    IN  /\ Len(parts) = 2
        /\ Len(parts[1]) \in {1, 2} /\ \A i \in 1..Len(parts[1]) : IsDigit(parts[1][i])
        /\ Len(parts[2]) = 2 /\ \A i \in 1..Len(parts[2]) : IsDigit(parts[2][i])

validate_time_format(time_str) ==
    IF ~IsTimeFormat(time_str)
    THEN [valid |-> FALSE, msg |-> "Time must be in HH:MM format"]
    ELSE IF ~(/\ 0 <= parse_time(time_str).h /\ parse_time(time_str).h <= 23
              /\ 0 <= parse_time(time_str).m /\ parse_time(time_str).m <= 59)
    THEN [valid |-> FALSE, msg |-> "Hour must be 0-23, minute must be 0-59"]
    ELSE [valid |-> TRUE, msg |-> "OK"]

validate_time_range(start_time, end_time) ==
    LET st == parse_time(start_time)
        en == parse_time(end_time)
    IN  IF ~(st.ok /\ en.ok) THEN [valid |-> FALSE, msg |-> "Invalid time format"]
        ELSE IF st.h * 60 + st.m >= en.h * 60 + en.m
        THEN [valid |-> FALSE, msg |-> "Start time must be before end time"]
        ELSE [valid |-> TRUE, msg |-> "OK"]

\* errors.append(prefix + msg) when the check failed
ErrorOf(r, prefix) == IF r.valid THEN <<>> ELSE <<prefix \o r.msg>>

validate_schedule(name, days, start_time, end_time, image, available_images) ==
    LET times == ErrorOf(validate_schedule_name(name), "")
                 \o ErrorOf(validate_days(days), "")
                 \o ErrorOf(validate_time_format(start_time), "Start time: ")
                 \o ErrorOf(validate_time_format(end_time), "End time: ")
        range == IF times = <<>>
                 THEN ErrorOf(validate_time_range(start_time, end_time), "")
                 ELSE <<>>
        errors == times \o range \o ErrorOf(validate_image(image, available_images), "")
    IN  [valid |-> Len(errors) = 0, errors |-> errors]

----------------------------------------------------------------------------
(* check_schedule_overlap *)

\* the comprehension without its `if d in DAY_NAMES' filter, unknown
\* symbols standing for themselves
RECURSIVE day_names_unfiltered(_)
day_names_unfiltered(ds) ==
    IF ds = <<>> THEN <<>>
    ELSE (IF ds[1] \in DOMAIN DAY_NAMES THEN <<DAY_NAMES[ds[1]]>> ELSE <<<<ds[1]>>>>)
         \o day_names_unfiltered(Tail(ds))

\* [DAY_NAMES[d] for d in sorted(overlap_days) if d in DAY_NAMES]
RECURSIVE day_names_of(_)
day_names_of(ds) ==
    IF ds = <<>> THEN <<>>
    ELSE (IF ds[1] \in DOMAIN DAY_NAMES THEN <<DAY_NAMES[ds[1]]>> ELSE <<>>)
         \o day_names_of(Tail(ds))

\* the dict appended to overlaps
ConflictDescriptor(existing, new_days_set) ==
    LET exist_start_h == int(existing.start_hour)
        exist_start_m == int(existing.start_min)
        exist_end_h == int(existing.end_hour)
        exist_end_m == int(existing.end_min)
        overlap_days == new_days_set \cap set(existing.days)
        overlap_day_names == day_names_of(sorted(overlap_days))
    IN  [name |-> existing.name,
         start |-> str(exist_start_h) \o <<":">> \o zfill(str(exist_start_m), 2),
         end |-> str(exist_end_h) \o <<":">> \o zfill(str(exist_end_m), 2),
         days |-> join(overlap_day_names, <<",">>)]

\* the interval test with closed endpoints
TimeOverlapClosed(new_start_mins, new_end_mins, exist_start_mins, exist_end_mins) ==
    new_start_mins <= exist_end_mins /\ new_end_mins >= exist_start_mins

\* the two minute-of-day windows intersect
TimeOverlap(new_start_mins, new_end_mins, exist_start_mins, exist_end_mins) ==
    new_start_mins < exist_end_mins /\ new_end_mins > exist_start_mins

\* the record is the one being edited
Excluded(existing, exclude_name) ==
    Truthy(exclude_name) /\ existing.name = exclude_name.value

\* the day test left out
SharesDayAlways(new_days_set, existing) == TRUE

\* new_days_set.intersection(existing_days_set) is not empty
SharesDay(new_days_set, existing) == new_days_set \cap set(existing.days) # {}

\* the ValueError of int() left uncaught
UnparsableRaises == [append |-> <<>>, raised |-> TRUE]

\* the try block of the loop body: what a stored record that cannot be
\* parsed does to the call
UnparsableExisting == [append |-> <<>>, raised |-> FALSE]

\* one iteration of the loop over manager.schedules[date]
ScanExisting(existing, new_days_set, new_start_mins, new_end_mins, exclude_name) ==
    IF Excluded(existing, exclude_name)
    THEN [append |-> <<>>, raised |-> FALSE]
    ELSE IF ~SharesDay(new_days_set, existing)
    THEN [append |-> <<>>, raised |-> FALSE]
    ELSE IF ~(/\ int_ok(existing.start_hour) /\ int_ok(existing.start_min)
              /\ int_ok(existing.end_hour) /\ int_ok(existing.end_min))
    THEN UnparsableExisting
    ELSE IF TimeOverlap(new_start_mins, new_end_mins,
                        int(existing.start_hour) * 60 + int(existing.start_min),
                        int(existing.end_hour) * 60 + int(existing.end_min))
    THEN [append |-> <<ConflictDescriptor(existing, new_days_set)>>, raised |-> FALSE]
    ELSE [append |-> <<>>, raised |-> FALSE]

\* the loop returning at its first conflict
RECURSIVE ScanFirstOnly(_, _, _, _, _, _, _)
ScanFirstOnly(list, h, i, new_days_set, new_start_mins, new_end_mins, exclude_name) ==
    IF i > Len(list) THEN [overlaps |-> <<>>, hits |-> <<>>, raised |-> FALSE]
    ELSE LET one == ScanExisting(h[list[i]], new_days_set, new_start_mins,
                                 new_end_mins, exclude_name)
         IN  IF one.raised THEN [overlaps |-> <<>>, hits |-> <<>>, raised |-> TRUE]
             ELSE IF one.append # <<>>
             THEN [overlaps |-> one.append, hits |-> <<i>>, raised |-> FALSE]
             ELSE ScanFirstOnly(list, h, i + 1, new_days_set, new_start_mins,
                                new_end_mins, exclude_name)

\* the loop, from position i of the list of the key; hits are the
\* positions whose iteration appended a descriptor
RECURSIVE ScanFrom(_, _, _, _, _, _, _)
ScanFrom(list, h, i, new_days_set, new_start_mins, new_end_mins, exclude_name) ==
    IF i > Len(list) THEN [overlaps |-> <<>>, hits |-> <<>>, raised |-> FALSE]
    ELSE LET one == ScanExisting(h[list[i]], new_days_set, new_start_mins,
                                 new_end_mins, exclude_name)
             rest == ScanFrom(list, h, i + 1, new_days_set, new_start_mins,
                              new_end_mins, exclude_name)
         IN  IF one.raised THEN [overlaps |-> <<>>, hits |-> <<>>, raised |-> TRUE]
             ELSE [overlaps |-> one.append \o rest.overlaps,
                   hits |-> (IF one.append = <<>> THEN <<>> ELSE <<i>>) \o rest.hits,
                   raised |-> rest.raised]

\* a lookup that inserts an empty list under a missing key
StoreAfterCheckInserting(store, h, date) ==
    [schedules |-> IF date \in DOMAIN store THEN store ELSE store @@ (date :> <<>>),
     heap |-> h]

\* manager.schedules and its dicts as the call leaves them: the function
\* only reads them
StoreAfterCheck(store, h, date) == [schedules |-> store, heap |-> h]

check_schedule_overlap(store, h, date, days, start_time, end_time, exclude_name) ==
    LET nothing == [overlaps |-> <<>>, hits |-> <<>>, raised |-> FALSE]
        new_start == parse_time(start_time)
        new_end == parse_time(end_time)
        scan == IF date \notin DOMAIN store THEN nothing
                ELSE IF ~(new_start.ok /\ new_end.ok) THEN nothing
                ELSE ScanFrom(store[date], h, 1, set(days),
                              new_start.h * 60 + new_start.m,
                              new_end.h * 60 + new_end.m, exclude_name)
    IN  [overlaps |-> IF scan.raised THEN <<>> ELSE scan.overlaps,
         hits |-> scan.hits,
         raised |-> scan.raised,
         schedules |-> StoreAfterCheck(store, h, date).schedules,
         heap |-> StoreAfterCheck(store, h, date).heap]

----------------------------------------------------------------------------
(* Dates: validate_schedule_date, datetime.strptime and weekday *)

CancelInput == <<"c", "a", "n", "c", "e", "l">>

is_leap(y) == y % 4 = 0 /\ (y % 100 # 0 \/ y % 400 = 0)

days_in_month(y, m) ==
    IF m = 2 THEN (IF is_leap(y) THEN 29 ELSE 28)
    ELSE IF m \in {4, 6, 9, 11} THEN 30 ELSE 31

days_before_year(y) ==
    (y - 1) * 365 + (y - 1) \div 4 - (y - 1) \div 100 + (y - 1) \div 400

DAYS_BEFORE_MONTH == <<0, 31, 59, 90, 120, 151, 181, 212, 243, 273, 304, 334>>

days_before_month(y, m) ==
    DAYS_BEFORE_MONTH[m] + (IF m > 2 /\ is_leap(y) THEN 1 ELSE 0)

\* date.weekday(): 0 is Monday, 6 is Sunday
weekday(y, m, d) == (days_before_year(y) + days_before_month(y, m) + d + 6) % 7

\* re.match(r'^\d{4}-\d{2}-\d{2}$', s)
IsDateFormat(s) ==
    /\ Len(s) = 10
    /\ \A i \in {1, 2, 3, 4, 6, 7, 9, 10} : IsDigit(s[i])
    /\ s[5] = "-" /\ s[8] = "-"

\* datetime.strptime(s, '%Y-%m-%d'): a year of four digits, a month and a
\* day of one or two digits each
strptime(s) ==
    LET parts == IF IsDateFormat(s)
                 THEN <<SubSeq(s, 1, 4), SubSeq(s, 6, 7), SubSeq(s, 9, 10)>>
                 ELSE split(s, "-")
    IN  IF ~(/\ Len(parts) = 3
             /\ Len(parts[1]) = 4
             /\ Len(parts[2]) \in {1, 2}
             /\ Len(parts[3]) \in {1, 2}
             /\ \A k \in 1..3 : \A i \in 1..Len(parts[k]) : IsDigit(parts[k][i]))
        THEN [ok |-> FALSE, y |-> 0, m |-> 0, d |-> 0]
        ELSE LET y == DigitsVal(parts[1])
                 m == DigitsVal(parts[2])
                 d == DigitsVal(parts[3])
             IN  [ok |-> y >= 1 /\ m \in 1..12 /\ d >= 1 /\ d <= days_in_month(y, m),
                  y |-> y, m |-> m, d |-> d]

validate_schedule_date(date_str) ==
    IF date_str = DefaultKey THEN TRUE
    ELSE IF ~IsDateFormat(date_str) THEN FALSE
    ELSE strptime(date_str).ok

\* the prompt loop for the target date, fed the lines the user types
RECURSIVE read_target_date(_)
read_target_date(script) ==
    IF script = <<>> THEN [state |-> "prompt", target_date |-> <<>>, rest |-> <<>>]
    ELSE IF Head(script) = CancelInput
    THEN [state |-> "cancel", target_date |-> <<>>, rest |-> Tail(script)]
    ELSE IF validate_schedule_date(Head(script)) /\ Head(script) # DefaultKey
    THEN [state |-> "ok", target_date |-> Head(script), rest |-> Tail(script)]
    ELSE read_target_date(Tail(script))

\* str(target_date_obj.weekday() + 1)
target_day_of(target_date) ==
    LET t == strptime(target_date)
    IN  str(weekday(t.y, t.m, t.d) + 1)[1]

\* the days create_schedule_interactive sets for a date key: the weekday
\* number of the date, or all days when anything in the try block raises
auto_set_days(date) ==
    LET t == strptime(date)
    IN  IF ~t.ok THEN <<"1", "2", "3", "4", "5", "6", "7">>
        ELSE LET day_num == str(weekday(t.y, t.m, t.d) + 1)
             IN  IF day_num[1] \notin DOMAIN DAY_NAMES
                 THEN <<"1", "2", "3", "4", "5", "6", "7">>
                 ELSE day_num

----------------------------------------------------------------------------
(* EventValidator, in pantallita_manager.py and in event_manager.py *)

LowerLetters ==
    <<"a", "b", "c", "d", "e", "f", "g", "h", "i", "j", "k", "l", "m", "n", "o", "p", "q", "r", "s", "t", "u", "v", "w", "x", "y", "z">>

UpperLetters ==
    <<"A", "B", "C", "D", "E", "F", "G", "H", "I", "J", "K", "L", "M", "N", "O", "P", "Q", "R", "S", "T", "U", "V", "W", "X", "Y", "Z">>

\* s.upper()
upper(s) ==
    [i \in 1..Len(s) |->
        IF \E k \in 1..26 : LowerLetters[k] = s[i]
        THEN UpperLetters[CHOOSE k \in 1..26 : LowerLetters[k] = s[i]]
        ELSE s[i]]

\* VALID_COLORS of pantallita_manager.py
VALID_COLORS ==
    <<<<"M", "I", "N", "T">>,
      <<"B", "U", "G", "A", "M", "B", "I", "L", "I", "A">>,
      <<"L", "I", "L", "A", "C">>,
      <<"R", "E", "D">>,
      <<"G", "R", "E", "E", "N">>,
      <<"B", "L", "U", "E">>,
      <<"O", "R", "A", "N", "G", "E">>,
      <<"Y", "E", "L", "L", "O", "W">>,
      <<"C", "Y", "A", "N">>,
      <<"P", "U", "R", "P", "L", "E">>,
      <<"P", "I", "N", "K">>,
      <<"A", "Q", "U", "A">>,
      <<"W", "H", "I", "T", "E">>,
      <<"B", "R", "O", "W", "N">>,
      <<"B", "E", "I", "G", "E">>,
      <<"D", "A", "R", "K", "_", "G", "R", "A", "Y">>,
      <<"G", "R", "A", "Y">>,
      <<"D", "I", "M", "M", "E", "S", "T", "_", "W", "H", "I", "T", "E">>>>

\* VALID_COLORS of event_manager.py
VALID_COLORS_EVENTS ==
    <<<<"M", "I", "N", "T">>,
      <<"B", "U", "G", "A", "M", "B", "I", "L", "I", "A">>,
      <<"L", "I", "L", "A", "C">>,
      <<"R", "E", "D">>,
      <<"G", "R", "E", "E", "N">>,
      <<"B", "L", "U", "E">>,
      <<"O", "R", "A", "N", "G", "E">>,
      <<"Y", "E", "L", "L", "O", "W">>,
      <<"C", "Y", "A", "N">>,
      <<"P", "U", "R", "P", "L", "E">>,
      <<"P", "I", "N", "K">>,
      <<"A", "Q", "U", "A">>,
      <<"W", "H", "I", "T", "E">>>>

ColorsOf(module) ==
    IF module = "event_manager" THEN VALID_COLORS_EVENTS ELSE VALID_COLORS

validate_color(color, module) ==
    IF \A k \in 1..Len(ColorsOf(module)) : ColorsOf(module)[k] # upper(color)
    THEN [valid |-> FALSE, msg |-> "Color must be one of the valid colors"]
    ELSE [valid |-> TRUE, msg |-> "OK"]

\* event_date < today, both at midnight
DateBefore(a, b) ==
    \/ a.y < b.y
    \/ a.y = b.y /\ a.m < b.m
    \/ a.y = b.y /\ a.m = b.m /\ a.d < b.d

\* EventValidator.validate_date; now is the date datetime.now() falls on
validate_date(date_str, now) ==
    IF ~IsDateFormat(date_str)
    THEN [valid |-> FALSE, msg |-> "Date must be in YYYY-MM-DD format"]
    ELSE IF ~strptime(date_str).ok
    THEN [valid |-> FALSE, msg |-> "Invalid date"]
    ELSE IF DateBefore(strptime(date_str), strptime(now))
    THEN [valid |-> FALSE, msg |-> "Date is in the past (today is " \o Text(now) \o ")"]
    ELSE [valid |-> TRUE, msg |-> "OK"]

validate_text(text, field_name, max_length) ==
    IF text = <<>> \/ is_blank(text)
    THEN [valid |-> FALSE, msg |-> field_name \o " cannot be empty"]
    ELSE IF Len(text) > max_length
    THEN [valid |-> FALSE, msg |-> field_name \o " too long (max 12 chars)"]
    ELSE [valid |-> TRUE, msg |-> "OK"]

\* EventValidator.validate_time of an hour typed as text
validate_time(hour_str, field_name) ==
    IF ~int_ok(hour_str) THEN [valid |-> FALSE, msg |-> field_name \o " must be a number"]
    ELSE IF 0 <= int(hour_str) /\ int(hour_str) <= 23 THEN [valid |-> TRUE, msg |-> "OK"]
    ELSE [valid |-> FALSE, msg |-> field_name \o " must be 0-23"]

\* the check of an optional hour
HourErrors(hour, field_name) ==
    IF hour.given THEN ErrorOf(validate_time(hour.value, field_name), "") ELSE <<>>

\* the check that the start hour is before the end hour
RangeErrors(start_hour, end_hour) ==
    IF start_hour.given /\ end_hour.given
       /\ int_ok(start_hour.value) /\ int_ok(end_hour.value)
       /\ int(start_hour.value) >= int(end_hour.value)
    THEN <<"Start hour must be before end hour">>
    ELSE <<>>

\* the errors list as validate_event builds it
EventErrors(module, date, top_line, bottom_line, image, color, start_hour, end_hour, now, available_images) ==
    ErrorOf(validate_date(date, now), "Date: ")
    \o ErrorOf(validate_text(top_line, "Top Line", 12), "")
    \o ErrorOf(validate_text(bottom_line, "Bottom Line", 12), "")
    \o ErrorOf(validate_image(image, available_images), "")
    \o ErrorOf(validate_color(color, module), "")
    \o HourErrors(start_hour, "Start hour")
    \o HourErrors(end_hour, "End hour")
    \o RangeErrors(start_hour, end_hour)

\* the checks stopping at the first one that fails
validate_event_first_error(module, date, top_line, bottom_line, image, color, start_hour, end_hour, now, available_images) ==
    LET errors == EventErrors(module, date, top_line, bottom_line, image, color,
                              start_hour, end_hour, now, available_images)
    IN  [valid |-> Len(errors) = 0,
         errors |-> IF errors = <<>> THEN <<>> ELSE <<errors[1]>>]

validate_event(module, date, top_line, bottom_line, image, color, start_hour, end_hour, now, available_images) ==
    LET errors == EventErrors(module, date, top_line, bottom_line, image, color,
                              start_hour, end_hour, now, available_images)
    IN  [valid |-> Len(errors) = 0, errors |-> errors]

----------------------------------------------------------------------------
(* EventManager.save *)

\* a < b for two str
RECURSIVE str_lt(_, _)
str_lt(a, b) ==
    IF b = <<>> THEN FALSE
    ELSE IF a = <<>> THEN TRUE
    ELSE IF a[1] # b[1] THEN Ord(a[1]) < Ord(b[1])
    ELSE str_lt(Tail(a), Tail(b))

\* the place list.sort gives a row among sorted rows that came before
\* it: after every row whose key is not greater
RECURSIVE insert_by_key(_, _)
insert_by_key(rows, x) ==
    IF rows = <<>> THEN <<x>>
    ELSE IF str_lt(x[1], rows[Len(rows)][1])
    THEN Append(insert_by_key(SubSeq(rows, 1, Len(rows) - 1), x), rows[Len(rows)])
    ELSE Append(rows, x)

\* self.events.sort(key=lambda x: x[0])
RECURSIVE sort_by_date(_)
sort_by_date(rows) ==
    IF rows = <<>> THEN <<>>
    ELSE insert_by_key(sort_by_date(SubSeq(rows, 1, Len(rows) - 1)), rows[Len(rows)])

----------------------------------------------------------------------------
(* cleanup_past_events, in pantallita_manager.py and in event_manager.py *)

\* the comprehension with > in place of >=
RECURSIVE events_after(_, _)
events_after(rows, now) ==
    IF rows = <<>> THEN [raised |-> FALSE, kept |-> <<>>]
    ELSE LET d == strptime(rows[1][1])
             rest == events_after(Tail(rows), now)
         IN  IF ~d.ok \/ rest.raised THEN [raised |-> TRUE, kept |-> <<>>]
             ELSE IF DateBefore(strptime(now), d)
             THEN [raised |-> FALSE, kept |-> <<rows[1]>> \o rest.kept]
             ELSE rest

\* [event for event in events if datetime.strptime(event[0], '%Y-%m-%d') >= today];
\* strptime raises ValueError on a date it cannot parse
RECURSIVE events_from_today(_, _)
events_from_today(rows, now) ==
    IF rows = <<>> THEN [raised |-> FALSE, kept |-> <<>>]
    ELSE LET d == strptime(rows[1][1])
             rest == events_from_today(Tail(rows), now)
         IN  IF ~d.ok \/ rest.raised THEN [raised |-> TRUE, kept |-> <<>>]
             ELSE IF ~DateBefore(d, strptime(now))
             THEN [raised |-> FALSE, kept |-> <<rows[1]>> \o rest.kept]
             ELSE rest

\* the event list after the call: the assignment does not happen when the
\* comprehension raises
cleanup_past_events(rows, now) ==
    LET c == events_from_today(rows, now)
    IN  [raised |-> c.raised, events |-> IF c.raised THEN rows ELSE c.kept]

----------------------------------------------------------------------------
(* create_from_template_interactive *)

\* the rows of a key, as values
RowsOf(store, h, key) == [i \in 1..Len(store[key]) |-> h[store[key][i]]]

\* every row passes
AppliesAlways(target_day, schedule) == TRUE

\* target_day in schedule['days']
AppliesTo(target_day, schedule) == target_day \in set(schedule.days)

\* the filtering loop putting each copy in front of the earlier ones
RECURSIVE FilterByDayReversed(_, _, _)
FilterByDayReversed(rows, i, target_day) ==
    IF i > Len(rows) THEN <<>>
    ELSE FilterByDayReversed(rows, i + 1, target_day)
         \o (IF AppliesTo(target_day, rows[i])
              THEN <<[origin |-> i, rec |-> rows[i]]>> ELSE <<>>)

\* the filtering loop: a copy of each row that applies to the target day,
\* with the position it was copied from
RECURSIVE FilterByDay(_, _, _)
FilterByDay(rows, i, target_day) ==
    IF i > Len(rows) THEN <<>>
    ELSE (IF AppliesTo(target_day, rows[i])
          THEN <<[origin |-> i, rec |-> rows[i]]>> ELSE <<>>)
         \o FilterByDay(rows, i + 1, target_day)

\* [s.copy() for s in manager.schedules[source_date]]
CopyAll(rows) == [i \in 1..Len(rows) |-> [origin |-> i, rec |-> rows[i]]]

NoTemplate(outcome) == [outcome |-> outcome, source_rows |-> <<>>, template |-> <<>>]

\* template_schedules for the chosen template
load_template(store, h, local, template_choice, source_date, target_day) ==
    IF template_choice = <<"1">>
    THEN IF DefaultKey \notin DOMAIN store THEN NoTemplate("no default")
         ELSE [outcome |-> "ok", source_rows |-> RowsOf(store, h, DefaultKey),
               template |-> FilterByDay(RowsOf(store, h, DefaultKey), 1, target_day)]
    ELSE IF template_choice = <<"2">>
    THEN IF source_date \notin DOMAIN store THEN NoTemplate("no source")
         ELSE IF source_date = DefaultKey
         THEN [outcome |-> "ok", source_rows |-> RowsOf(store, h, DefaultKey),
               template |-> FilterByDay(RowsOf(store, h, DefaultKey), 1, target_day)]
         ELSE [outcome |-> "ok", source_rows |-> RowsOf(store, h, source_date),
               template |-> CopyAll(RowsOf(store, h, source_date))]
    ELSE IF template_choice = <<"3">>
    THEN IF ~local.exists THEN NoTemplate("no local file")
         ELSE [outcome |-> "ok", source_rows |-> local.rows,
               template |-> FilterByDay(local.rows, 1, target_day)]
    ELSE NoTemplate("invalid choice")

\* the adjustment with the end total computed from start_hour
shift_schedule_start_hour(schedule, shift_minutes) ==
    LET start_mins == int(schedule.start_hour) * 60 + int(schedule.start_min) + shift_minutes
        end_mins == int(schedule.start_hour) * 60 + int(schedule.end_min) + shift_minutes
    IN  [schedule EXCEPT !.start_hour = str(start_mins \div 60),
                         !.start_min = str(start_mins % 60),
                         !.end_hour = str(end_mins \div 60),
                         !.end_min = str(end_mins % 60)]

\* the time adjustment of one copied record
shift_schedule(schedule, shift_minutes) ==
    LET start_mins == int(schedule.start_hour) * 60 + int(schedule.start_min) + shift_minutes
        end_mins == int(schedule.end_hour) * 60 + int(schedule.end_min) + shift_minutes
    IN  [schedule EXCEPT !.start_hour = str(start_mins \div 60),
                         !.start_min = str(start_mins % 60),
                         !.end_hour = str(end_mins \div 60),
                         !.end_min = str(end_mins % 60)]

\* [int(x.strip()) - 1 for x in selection.split(',')]
SelectionIndices(selection) ==
    LET parts == split(selection, ",")
    IN  [ok |-> \A k \in 1..Len(parts) : int_ok(parts[k]),
         parts |-> parts]

\* [template_schedules[i] for i in indices if 0 <= i < len(template_schedules)];
\* obj is the copied dict an entry refers to
RECURSIVE PickSelected(_, _, _)
PickSelected(template, parts, k) ==
    IF k > Len(parts) THEN <<>>
    ELSE LET i == int(parts[k]) - 1
         IN  (IF 0 <= i /\ i < Len(template)
              THEN <<[obj |-> i + 1, origin |-> template[i + 1].origin,
                      rec |-> template[i + 1].rec]>>
              ELSE <<>>)
             \o PickSelected(template, parts, k + 1)

NoSelection(outcome) == [outcome |-> outcome, selected |-> <<>>]

\* selected_schedules for the chosen option
select_schedules(template, mod_choice, shift_input, selection) ==
    IF mod_choice = <<"0">> THEN NoSelection("cancel")
    ELSE IF mod_choice = <<"1">>
    THEN [outcome |-> "ok",
          selected |-> [k \in 1..Len(template) |->
                           [obj |-> k, origin |-> template[k].origin,
                            rec |-> template[k].rec]]]
    ELSE IF mod_choice = <<"2">>
    THEN IF ~int_ok(shift_input) THEN NoSelection("invalid shift")
         ELSE IF \E k \in 1..Len(template) : ~(/\ int_ok(template[k].rec.start_hour)
                                                /\ int_ok(template[k].rec.start_min)
                                                /\ int_ok(template[k].rec.end_hour)
                                                /\ int_ok(template[k].rec.end_min))
         THEN NoSelection("invalid shift")
         ELSE [outcome |-> "ok",
               selected |-> [k \in 1..Len(template) |->
                                [obj |-> k, origin |-> template[k].origin,
                                 rec |-> shift_schedule(template[k].rec, int(shift_input))]]]
    ELSE IF mod_choice = <<"3">>
    THEN IF ~SelectionIndices(selection).ok THEN NoSelection("invalid selection")
         ELSE IF PickSelected(template, SelectionIndices(selection).parts, 1) = <<>>
         THEN NoSelection("invalid selection")
         ELSE [outcome |-> "ok",
               selected |-> PickSelected(template, SelectionIndices(selection).parts, 1)]
    ELSE NoSelection("invalid choice")

\* the days of a selected record left as copied
KeepDays(schedule, target_day) == schedule

\* schedule['days'] = target_day
Retag(schedule, target_day) == [schedule EXCEPT !.days = <<target_day>>]

RetagAll(selected, target_day) ==
    [k \in 1..Len(selected) |->
        [selected[k] EXCEPT !.rec = Retag(selected[k].rec, target_day)]]

MaxRef(h) == IF DOMAIN h = {} THEN 0 ELSE CHOOSE n \in DOMAIN h : \A m \in DOMAIN h : m <= n

\* the objects a store refers to
Reachable(store) == UNION { { store[k][i] : i \in 1..Len(store[k]) } : k \in DOMAIN store }

\* dicts no list refers to any more are dropped
Collect(store, h) == [r \in (DOMAIN h \cap Reachable(store)) |-> h[r]]

\* manager.schedules[key] = list
Put(store, key, list) ==
    [k \in DOMAIN store \cup {key} |-> IF k = key THEN list ELSE store[k]]

\* the target key has a non-empty list
HasSchedules(store, target_date) ==
    target_date \in DOMAIN store /\ store[target_date] # <<>>

\* the merge leaving out a record whose name the key already holds
ExtendedUnlessNamed(h, list, refs) ==
    list \o SelectSeq(refs, LAMBDA r : \A i \in 1..Len(list) : h[list[i]].name # h[r].name)

\* manager.schedules[target_date].extend(selected_schedules)
Extended(h, list, refs) == list \o refs

\* the replacement keeping the records the key held
ReplacedKeeping(list, refs) == list \o refs

\* manager.schedules[target_date] = selected_schedules, over a list the
\* key held
Replaced(list, refs) == refs

\* the selected records assigned before the question is answered
LeftAssigned(store, target_date, refs) == Put(store, target_date, refs)

\* the store when the handler returns at choice 0 or at an invalid choice
LeftAlone(store, target_date, refs) == store

\* the final step: create, replace or merge
store_selected(store, h, target_date, selected, replace_choice) ==
    LET base == MaxRef(h)
        refs == [k \in 1..Len(selected) |-> base + selected[k].obj]
        h2 == [r \in DOMAIN h \cup { refs[k] : k \in 1..Len(refs) } |->
                  IF r \in DOMAIN h THEN h[r]
                  ELSE selected[CHOOSE k \in 1..Len(refs) : refs[k] = r].rec]
        done(outcome, st) ==
            [outcome |-> outcome, schedules |-> st, heap |-> Collect(st, h2),
             written |-> refs]
        kept(outcome) ==
            [outcome |-> outcome,
             schedules |-> LeftAlone(store, target_date, refs),
             heap |-> Collect(LeftAlone(store, target_date, refs), h2),
             written |-> <<>>]
    IN  IF HasSchedules(store, target_date)
        THEN IF replace_choice = <<"0">> THEN kept("cancel")
             ELSE IF replace_choice = <<"1">>
             THEN done("replaced", Put(store, target_date,
                                       Replaced(store[target_date], refs)))
             ELSE IF replace_choice = <<"2">>
             THEN done("merged", Put(store, target_date,
                                     Extended(h2, store[target_date], refs)))
             ELSE kept("invalid choice")
        ELSE done("created", Put(store, target_date, refs))

----------------------------------------------------------------------------
(* ScheduleManager.add_schedule and delete_schedule_file *)

\* the dict add_schedule builds from its arguments
NewSchedule(name, days, start_time, end_time, image, progressbar) ==
    [name |-> name, enabled |-> <<"1">>, days |-> days,
     start_hour |-> str(parse_time(start_time).h),
     start_min |-> str(parse_time(start_time).m),
     end_hour |-> str(parse_time(end_time).h),
     end_min |-> str(parse_time(end_time).m),
     image |-> image,
     progressbar |-> IF progressbar THEN <<"1">> ELSE <<"0">>]

\* the new dict put in front of the list
AppendedFirst(list, ref) == <<ref>> \o list

\* self.schedules[date].append(schedule)
Appended(list, ref) == Append(list, ref)

add_schedule(store, h, date, name, days, start_time, end_time, image, progressbar, available_images) ==
    IF ~validate_schedule(name, days, start_time, end_time, image, available_images).valid
    THEN [returned |-> FALSE, schedules |-> store, heap |-> h]
    ELSE LET ref == MaxRef(h) + 1
             list == IF date \notin DOMAIN store THEN <<>> ELSE store[date]
         IN  [returned |-> TRUE,
              schedules |-> Put(store, date, Appended(list, ref)),
              heap |-> [r \in DOMAIN h \cup {ref} |->
                           IF r = ref
                           THEN NewSchedule(name, days, start_time, end_time,
                                            image, progressbar)
                           ELSE h[r]]]

\* the key removed although the file could not be
DeletedAnyway(store, date, unlinked) == [k \in DOMAIN store \ {date} |-> store[k]]

\* del self.schedules[date], reached when filepath.unlink() did not raise
Deleted(store, date, unlinked) ==
    IF unlinked THEN [k \in DOMAIN store \ {date} |-> store[k]] ELSE store

delete_schedule_file(store, h, date, unlinked) ==
    IF date \notin DOMAIN store
    THEN [returned |-> FALSE, schedules |-> store, heap |-> h]
    ELSE [returned |-> unlinked,
          schedules |-> Deleted(store, date, unlinked),
          heap |-> Collect(Deleted(store, date, unlinked), h)]

----------------------------------------------------------------------------
(* edit_schedule_interactive, create_schedule_interactive and
   sync_default_and_local *)

\* input(...).strip() or current
or_else(typed, current) == IF typed = <<>> THEN current ELSE typed

\* f"{hour}:{min.zfill(2)}"
shown_time(hour, min) == hour \o <<":">> \o zfill(min, 2)

\* one time prompt of the edit: the fields change when the text holds a
\* colon, and h, m = text.split(':') raises unless there is exactly one
edit_time(typed, hour, min) ==
    LET parts == split(or_else(typed, shown_time(hour, min)), ":")
    IN  IF Len(parts) = 1 THEN [raised |-> FALSE, hour |-> hour, min |-> min]
        ELSE IF Len(parts) # 2 THEN [raised |-> TRUE, hour |-> hour, min |-> min]
        ELSE [raised |-> FALSE, hour |-> parts[1], min |-> parts[2]]

\* the dict after the assignments of the edit, st and en being what the two
\* time prompts gave; a raise at a time prompt leaves the fields assigned
\* before it
assigned(schedule, inp, st, en) ==
    IF st.raised
    THEN [raised |-> TRUE,
          schedule |-> [schedule EXCEPT !.name = or_else(inp.name, schedule.name),
                                        !.days = or_else(inp.days, schedule.days)]]
    ELSE IF en.raised
    THEN [raised |-> TRUE,
          schedule |-> [schedule EXCEPT !.name = or_else(inp.name, schedule.name),
                                        !.days = or_else(inp.days, schedule.days),
                                        !.start_hour = st.hour, !.start_min = st.min]]
    ELSE [raised |-> FALSE,
          schedule |-> [schedule EXCEPT !.name = or_else(inp.name, schedule.name),
                                        !.days = or_else(inp.days, schedule.days),
                                        !.start_hour = st.hour, !.start_min = st.min,
                                        !.end_hour = en.hour, !.end_min = en.min,
                                        !.image = or_else(inp.image, schedule.image),
                                        !.enabled =
                                            IF or_else(inp.enabled,
                                                       IF schedule.enabled = <<"1">>
                                                       THEN <<"y">> ELSE <<"n">>) = <<"y">>
                                            THEN <<"1">> ELSE <<"0">>]]

\* the dict after the prompts of the edit
edited_fields(schedule, inp) ==
    assigned(schedule, inp,
             edit_time(inp.start_time, schedule.start_hour, schedule.start_min),
             edit_time(inp.end_time, schedule.end_hour, schedule.end_min))

\* the edit assigned to every dict of the store that has the record's name
edited_by_name(h, ref, schedule) ==
    [r \in DOMAIN h |-> IF h[r].name = h[ref].name THEN schedule ELSE h[r]]

\* schedule = schedule_list[index]; schedule[...] = ...: the dict of the
\* list is assigned in place
edited_in_place(h, ref, schedule) == [h EXCEPT ![ref] = schedule]

\* the index of the record to edit: 0 for a list of one, else the number typed
edit_index(list, typed) ==
    IF Len(list) = 1 THEN [ok |-> TRUE, index |-> 0]
    ELSE IF ~int_ok(typed) THEN [ok |-> FALSE, index |-> 0]
    ELSE IF ~(0 <= int(typed) /\ int(typed) < Len(list)) THEN [ok |-> FALSE, index |-> 0]
    ELSE [ok |-> TRUE, index |-> int(typed)]

\* the handler returns before it has a record
edit_ends(store, h, outcome) ==
    [outcome |-> outcome, schedules |-> store, heap |-> h, index |-> 0,
     ref |-> 0, original |-> <<>>, overlaps |-> <<>>, calls |-> <<>>]

\* the handler returns after its assignments, h2 being the heap they left
edit_done(store, h, h2, index, ref, outcome, found, calls) ==
    [outcome |-> outcome, schedules |-> store, heap |-> h2,
     index |-> index, ref |-> ref, original |-> <<h[ref]>>,
     overlaps |-> found, calls |-> calls]

\* the check at the end of the edit, on the record as it now is
edit_check(store, h2, date, now, original_name) ==
    check_schedule_overlap(store, h2, date, now.days,
                           shown_time(now.start_hour, now.start_min),
                           shown_time(now.end_hour, now.end_min),
                           Some(original_name))

\* the warning and the question 'Save anyway?'
edit_warned(store, h, h2, inp, index, ref, found) ==
    edit_done(store, h, h2, index, ref,
              IF found # <<>> /\ inp.confirm # <<"y">> THEN "cancelled" ELSE "updated",
              found, <<"write", "check_schedule_overlap">>)

\* the prompts answered: e is the dict they leave and whether one raised
edit_record(store, h, inp, index, ref, e) ==
    IF e.raised
    THEN edit_done(store, h, edited_in_place(h, ref, e.schedule), index, ref,
                   "ValueError", <<>>, <<"write">>)
    ELSE edit_warned(store, h, edited_in_place(h, ref, e.schedule), inp, index, ref,
                     edit_check(store, edited_in_place(h, ref, e.schedule), inp.date,
                                e.schedule, h[ref].name).overlaps)

\* the record chosen
edit_picked(store, h, inp, pick) ==
    IF ~pick.ok THEN edit_ends(store, h, "invalid number")
    ELSE edit_record(store, h, inp, pick.index, store[inp.date][pick.index + 1],
                     edited_fields(h[store[inp.date][pick.index + 1]], inp))

edit_schedule_interactive(store, h, inp) ==
    IF DOMAIN store = {} THEN edit_ends(store, h, "no schedules")
    ELSE IF inp.date \notin DOMAIN store THEN edit_ends(store, h, "not found")
    ELSE IF store[inp.date] = <<>> THEN edit_ends(store, h, "invalid number")
    ELSE edit_picked(store, h, inp, edit_index(store[inp.date], inp.index))

\* what the prompt loops of create_schedule_interactive accept, each loop
\* asking again until its validator passes
accepted_by_prompts(inp, days, available_images) ==
    /\ inp.date_type = <<"2">> \/ validate_schedule_date(inp.date)
    /\ validate_schedule_name(inp.name).valid
    /\ inp.date_type # <<"2">> \/ validate_days(days).valid
    /\ validate_time_format(inp.start_time).valid
    /\ validate_time_format(inp.end_time).valid
    /\ validate_time_range(inp.start_time, inp.end_time).valid
    /\ validate_image(inp.image, available_images).valid

\* the key and the days the prompts end with: the days typed for default,
\* the weekday of the date otherwise
create_prompts(inp, available_images) ==
    LET date == IF inp.date_type = <<"2">> THEN DefaultKey ELSE inp.date
        days == IF inp.date_type = <<"2">> THEN inp.days ELSE auto_set_days(date)
    IN  [accepted |-> accepted_by_prompts(inp, days, available_images),
         date |-> date, days |-> days]

\* read is create_prompts of the answers
create_schedule_interactive(store, h, inp, available_images, read) ==
    LET date == read.date
        days == read.days
        ends(outcome, found, calls) ==
            [outcome |-> outcome, date |-> date, days |-> days, schedules |-> store,
             heap |-> h, overlaps |-> found, calls |-> calls]
    IN  IF ~read.accepted
        THEN ends("prompt", <<>>, <<>>)
        ELSE LET chk == check_schedule_overlap(store, h, date, days, inp.start_time,
                                               inp.end_time, None)
                 r == add_schedule(store, h, date, inp.name, days, inp.start_time,
                                   inp.end_time, inp.image, inp.progress # <<"n">>,
                                   available_images)
             IN  IF inp.confirm # <<"y">>
                 THEN ends("cancelled", chk.overlaps, <<"check_schedule_overlap">>)
                 ELSE IF ~r.returned
                 THEN ends("validation failed", chk.overlaps, <<"check_schedule_overlap">>)
                 ELSE [outcome |-> "saved", date |-> date, days |-> days,
                       schedules |-> r.schedules, heap |-> r.heap,
                       overlaps |-> chk.overlaps,
                       calls |-> <<"check_schedule_overlap", "write">>]

LocalKey == <<"l", "o", "c", "a", "l">>

\* manager.schedules[to] = manager.schedules[from].copy(): a new list of
\* the same dicts
copied_list(store, h, from, to) ==
    [schedules |-> Put(store, to, store[from]), heap |-> h]

\* default_file and local_file are the two files as the handler finds them;
\* newer names the file whose modification time is the greater
sync_default_and_local(store, h, default_file, local_file, newer, confirm, copy_ok) ==
    LET ends(outcome) ==
            [outcome |-> outcome, schedules |-> store, heap |-> h, local |-> local_file]
        action == IF ~default_file.exists THEN "local_to_default"
                  ELSE IF ~local_file.exists THEN "default_to_local"
                  ELSE IF newer = "default" THEN "default_to_local"
                  ELSE IF newer = "local" THEN "local_to_default"
                  ELSE "in sync"
    IN  IF ~default_file.exists /\ ~local_file.exists THEN ends("no files")
        ELSE IF action = "in sync" THEN ends("in sync")
        ELSE IF confirm # <<"y">> THEN ends("cancelled")
        ELSE IF ~copy_ok THEN ends("failed")
        ELSE IF action = "default_to_local"
        THEN LET c == IF DefaultKey \in DOMAIN store
                      THEN copied_list(store, h, DefaultKey, LocalKey)
                      ELSE [schedules |-> store, heap |-> h]
             IN  [outcome |-> action, schedules |-> c.schedules,
                  heap |-> Collect(c.schedules, c.heap), local |-> default_file]
        ELSE LET c == IF LocalKey \in DOMAIN store
                      THEN copied_list(store, h, LocalKey, DefaultKey)
                      ELSE [schedules |-> store, heap |-> h]
             IN  [outcome |-> action, schedules |-> c.schedules,
                  heap |-> Collect(c.schedules, c.heap), local |-> local_file]

----------------------------------------------------------------------------
(* Bounds and inputs *)

MaxRecs == 2        \* rows of a loaded schedule file
MaxSteps == 2       \* menu operations in one run
MaxEvents == 3      \* rows of the events file
MaxDaysLen == 3     \* characters of a days string, the longer samples apart

\* 2025-12-23 is a Tuesday, 2025-12-24 a Wednesday, 2025-12-28 a Sunday
Date1223 == <<"2", "0", "2", "5", "-", "1", "2", "-", "2", "3">>
Date1224 == <<"2", "0", "2", "5", "-", "1", "2", "-", "2", "4">>
Date1228 == <<"2", "0", "2", "5", "-", "1", "2", "-", "2", "8">>
BadDate == <<"2", "0", "2", "5", "-", "0", "2", "-", "3", "0">>

\* rows a schedule file can hold, well-formed and legacy
OverlapSamples ==
    { Schedule(<<"A">>, <<"1", "2", "3", "4", "5", "6", "7">>,
               <<"8">>, <<"0">>, <<"9">>, <<"0">>),
      Schedule(<<"A">>, <<"1", "2">>, <<"9">>, <<"0">>, <<"1", "0">>, <<"0">>),
      Schedule(<<"B">>, <<"3", "7">>, <<"8">>, <<"3", "0">>, <<"8">>, <<"4", "5">>),
      Schedule(<<>>, <<"3">>, <<"8">>, <<"0">>, <<"9">>, <<"0">>),
      Schedule(<<"B">>, <<"3">>, <<"x">>, <<"0">>, <<"9">>, <<"0">>),
      Schedule(<<"B">>, <<"0">>, <<"0", "8">>, <<"0", "0">>, <<"0", "9">>, <<"0", "0">>) }

DaysInputs == { <<"3", "7">>, <<"1", "2">>, <<"0">>, <<>> }

StartInputs == { <<"0", "8", ":", "3", "0">>, <<"9", ":", "0", "0">>,
                 <<"8", ":", "0", "0">>, <<"x">> }

EndInputs == { <<"0", "8", ":", "4", "5">>, <<"9", ":", "0", "0">>,
               <<"1", "0", ":", "0", "0">> }

ExcludeInputs == { None, Some(<<"A">>), Some(<<"B">>), Some(<<>>) }

KeyInputs == { DefaultKey, Date1224 }

RECURSIVE ListsUpTo(_, _)
ListsUpTo(S, n) ==
    IF n = 0 THEN { <<>> }
    ELSE ListsUpTo(S, n - 1) \cup
         { Append(l, x) : l \in { m \in ListsUpTo(S, n - 1) : Len(m) = n - 1 }, x \in S }

NoCall == [date |-> <<>>, days |-> <<>>, start_time |-> <<>>, end_time |-> <<>>,
           exclude_name |-> None]

File(rows) == [exists |-> TRUE, rows |-> rows]

NoResult == [op |-> "none"]

\* the day the manager is run on
Today == <<"2", "0", "2", "5", "-", "1", "2", "-", "2", "3">>

DefaultRows ==
    <<Schedule(<<"A">>, <<"1", "2", "3", "4", "5">>, <<"7">>, <<"0">>, <<"7">>, <<"3", "0">>),
      Schedule(<<"B">>, <<"6", "7">>, <<"9">>, <<"0">>, <<"1", "0">>, <<"0">>),
      Schedule(<<"C">>, <<"2", "3">>, <<"2", "3">>, <<"1", "5">>, <<"2", "3">>, <<"4", "5">>)>>

\* a default.csv of one weekday row
WeekdayRows ==
    <<Schedule(<<"A">>, <<"1", "2", "3", "4", "5">>, <<"7">>, <<"0">>, <<"7">>, <<"3", "0">>)>>

DateRows ==
    <<Schedule(<<"D">>, <<"2">>, <<"7">>, <<"1", "5">>, <<"7">>, <<"4", "5">>)>>

LocalRows ==
    <<Schedule(<<"L">>, <<"3", "7">>, <<"2", "3">>, <<"3", "0">>, <<"2", "3">>, <<"4", "5">>),
      Schedule(<<"M">>, <<"3">>, <<"x">>, <<"0">>, <<"9">>, <<"0">>)>>

\* the files the manager can find at start: default.csv, 2025-12-23.csv
\* and the local device file
StartFiles ==
    { [default |-> File(DefaultRows), date |-> File(DateRows), local |-> File(LocalRows)],
      [default |-> File(WeekdayRows), date |-> Absent, local |-> Absent],
      [default |-> Absent, date |-> File(<<>>), local |-> File(LocalRows)] }

MenuInputs == { <<"0">>, <<"1">>, <<"2">>, <<"3">>, <<"9">> }

DateInputs == { Date1223, Date1224, Date1228, DefaultKey, CancelInput, BadDate }

\* what the user types at the target date prompt until it is accepted
DateScripts ==
    { <<d>> : d \in DateInputs } \cup { <<DefaultKey, Date1228>>, <<BadDate, CancelInput>> }

\* what the prompt loop accepts of each script, and the weekday number of
\* the date it accepts
TargetReads ==
    [script \in DateScripts |->
        LET t == read_target_date(script)
        IN  [state |-> t.state, target_date |-> t.target_date, rest |-> t.rest,
             target_day |-> IF t.state = "ok" THEN target_day_of(t.target_date) ELSE ""]]

SourceInputs == { DefaultKey, Date1223 }

ShiftInputs == { <<"3", "0">>, <<"x">> }

SelectionInputs == { <<"2">>, <<"1", ",", "1">>, <<"x">>, <<"9">> }

\* arguments of add_schedule
AddDateInputs == { DefaultKey, Date1224 }

\* one call whose fields pass validation, one that fails every check and
\* one whose times are well formed but end before they start
AddInputs ==
    { [name |-> <<"A">>, days |-> <<"1", "2">>,
       start_time |-> <<"2", "3", ":", "0", "5">>, end_time |-> <<"2", "3", ":", "4", "5">>,
       image |-> <<"a", ".", "b", "m", "p">>],
      [name |-> <<" ">>, days |-> <<"7">>,
       start_time |-> <<"9", ":", "0">>, end_time |-> <<"2", "4", ":", "0", "0">>,
       image |-> <<"a">>],
      [name |-> <<"A">>, days |-> <<"1", "2">>,
       start_time |-> <<"9", ":", "0", "0">>, end_time |-> <<"0", "7", ":", "3", "0">>,
       image |-> <<"a", ".", "b", "m", "p">>] }

\* the .bmp files of the images folder: none found, or one
ImageFolders == { {}, { <<"a", ".", "b", "m", "p">> } }

\* arguments of validate_event
Yesterday == <<"2", "0", "2", "5", "-", "1", "2", "-", "2", "2">>

EventDateInputs == { Today, Yesterday, BadDate, <<"x">> }

TopLineInputs == { <<>>, <<"H", "a", "p", "p", "y">>, <<"H", "a", "p", "p", "y", "B", "i", "r", "t", "h", "d", "a", "y">> }

BottomLineInputs == { <<"B", "o", "b">>, <<" ">> }

ImageInputs == { <<"a", ".", "b", "m", "p">>, <<"a">> }

ColorInputs == { <<"m", "i", "n", "t">>, <<"B", "R", "O", "W", "N">>, <<"T", "E", "A", "L">> }

StartHourInputs == { None, Some(<<"9">>), Some(<<"2", "5">>), Some(<<"x">>) }

EndHourInputs == { None, Some(<<"8">>), Some(<<"1", "7">>) }

ModuleInputs == { "pantallita_manager", "event_manager" }

\* rows of ephemeral_events.csv; the month of the fifth is as typed into the
\* file or into the date prompt of edit_event_interactive, without a zero
EventSamples ==
    { <<<<"2", "0", "2", "5", "-", "1", "2", "-", "2", "4">>, <<"a">>, <<"B", "o", "b">>, <<"a", ".", "b", "m", "p">>, <<"M", "I", "N", "T">>>>,
      <<<<"2", "0", "2", "5", "-", "1", "2", "-", "2", "4">>, <<"b">>, <<"B", "o", "b">>, <<"a", ".", "b", "m", "p">>, <<"M", "I", "N", "T">>>>,
      <<<<"2", "0", "2", "5", "-", "1", "2", "-", "2", "3">>, <<"a">>, <<"B", "o", "b">>, <<"a", ".", "b", "m", "p">>, <<"M", "I", "N", "T">>>>,
      <<<<"2", "0", "2", "6", "-", "0", "1", "-", "0", "5">>, <<"a">>, <<"B", "o", "b">>, <<"a", ".", "b", "m", "p">>, <<"M", "I", "N", "T">>>>,
      <<<<"2", "0", "2", "6", "-", "9", "-", "0", "1">>, <<"a">>, <<"B", "o", "b">>, <<"a", ".", "b", "m", "p">>, <<"M", "I", "N", "T">>>>,
      <<<<"2", "0", "2", "6", "-", "1", "0", "-", "0", "1">>, <<"a">>, <<"B", "o", "b">>, <<"a", ".", "b", "m", "p">>, <<"M", "I", "N", "T">>>>,
      <<<<"2", "0", "2", "5", "-", "1", "2", "-", "2", "2">>, <<"a">>, <<"B", "o", "b">>, <<"a", ".", "b", "m", "p">>, <<"M", "I", "N", "T">>>>,
      <<<<"x">>, <<"a">>, <<"B", "o", "b">>, <<"a", ".", "b", "m", "p">>, <<"M", "I", "N", "T">>>> }

\* keys asked to be deleted
DeleteInputs == { DefaultKey, Date1223, Date1224 }

\* rows the time adjustment can meet: written by add_schedule, or typed
\* into a schedule file
ShiftSamples ==
    { Schedule(<<"A">>, <<"3">>, <<"7">>, <<"4", "5">>, <<"8">>, <<"1", "5">>),
      Schedule(<<"B">>, <<"3">>, <<"9">>, <<"0">>, <<"1", "0">>, <<"0">>),
      Schedule(<<"C">>, <<"3">>, <<"0", "7">>, <<"0", "0">>, <<"0", "7">>, <<"3", "0">>),
      Schedule(<<"D">>, <<"3">>, <<"7">>, <<"7", "5">>, <<"9">>, <<"0">>),
      Schedule(<<"E">>, <<"3">>, <<"2", "3">>, <<"1", "5">>, <<"2", "3">>, <<"4", "5">>),
      Schedule(<<"F">>, <<"3">>, <<"x">>, <<"0">>, <<"9">>, <<"0">>) }

ShiftCallInputs ==
    { <<"3", "0">>, <<"-", "3", "0">>, <<"+", "9", "0">>, <<"0">>, <<"-", "4", "8", "0">>, <<"x">> }

\* days strings given to validate_days: every string of up to MaxDaysLen
\* of these characters, and three longer ones
DayChars == { "0", "6", "7", "x", " " }

DayStrings ==
    ListsUpTo(DayChars, MaxDaysLen)
        \cup { <<"0", "1", "2", "3", "4", "5", "6">>,
               <<"1", "2", "3", "4", "5", "6", "7">>,
               <<"0", "1", "2", "3", "4", "5", "6", "0">> }

NameInputs == { <<"A">>, <<>>, [i \in 1..31 |-> "A"] }

ScheduleTimeInputs ==
    { <<"9", ":", "0", "0">>, <<"0", "7", ":", "3", "0">>, <<"2", "4", ":", "0", "0">>,
      <<"9", ":", "0">> }

\* the Monday to the Sunday of one week, and a leap day
December2025(dd) == <<"2", "0", "2", "5", "-", "1", "2", "-">> \o dd

WeekDates ==
    { December2025(<<"2", "2">>), Date1223, Date1224, December2025(<<"2", "5">>),
      December2025(<<"2", "6">>), December2025(<<"2", "7">>), Date1228,
      <<"2", "0", "2", "4", "-", "0", "2", "-", "2", "9">> }

ValidatorCall(name, days, start_time, end_time, image, available_images, date) ==
    [name |-> name, days |-> days, start_time |-> start_time, end_time |-> end_time,
     image |-> image, available_images |-> available_images, date |-> date]

\* what the validators are called with: the days vary, or the other
\* fields of a schedule, or the date of the key
ValidatorCalls ==
    { ValidatorCall(<<"A">>, d, <<"9", ":", "0", "0">>, <<"1", "0", ":", "0", "0">>,
                    <<"a", ".", "b", "m", "p">>, {}, Date1224) : d \in DayStrings }
    \cup { ValidatorCall(n, d, st, en, i, {}, Date1224) :
              n \in NameInputs, d \in { <<"1", "2">>, <<"7">> },
              st \in ScheduleTimeInputs, en \in ScheduleTimeInputs, i \in ImageInputs }
    \cup { ValidatorCall(<<"A">>, <<"1", "2">>, <<"9", ":", "0", "0">>,
                         <<"1", "0", ":", "0", "0">>, <<"a", ".", "b", "m", "p">>, {}, date) :
              date \in WeekDates }

\* the files of a session at the menu: one weekday row in default.csv with
\* a dated file and the local device file, default.csv alone, and no
\* default.csv
MenuStartFiles ==
    { [default |-> File(WeekdayRows), date |-> File(DateRows), local |-> File(LocalRows)],
      [default |-> File(WeekdayRows), date |-> Absent, local |-> Absent],
      [default |-> Absent, date |-> File(<<>>), local |-> File(LocalRows)] }

\* what the user types at the prompts of the edit; an empty text keeps the
\* current value
EditDateInputs == { DefaultKey, Date1223, Date1224, LocalKey }

EditIndexInputs == { <<"0">>, <<"1">> }

EditAnswers ==
    { [name |-> <<"Z">>, start_time |-> <<>>, confirm |-> <<"n">>],
      [name |-> <<"Z">>, start_time |-> <<>>, confirm |-> <<"y">>],
      [name |-> <<>>, start_time |-> <<"2", "3", ":", "1", "0">>, confirm |-> <<"y">>] }

EditInputs ==
    { [date |-> date, index |-> index, name |-> a.name, days |-> <<>>,
       start_time |-> a.start_time, end_time |-> <<>>, image |-> <<>>,
       enabled |-> <<>>, confirm |-> a.confirm] :
        date \in EditDateInputs, index \in EditIndexInputs, a \in EditAnswers }

\* what the prompts of create_schedule_interactive are answered: a default
\* schedule saved or not, and two dated ones, the second on a Sunday
CreateAnswers ==
    { [date_type |-> <<"2">>, date |-> <<>>, confirm |-> <<"y">>],
      [date_type |-> <<"2">>, date |-> <<>>, confirm |-> <<"n">>],
      [date_type |-> <<"1">>, date |-> Date1224, confirm |-> <<"y">>],
      [date_type |-> <<"1">>, date |-> Date1228, confirm |-> <<"y">>] }

CreateInputs ==
    { [date_type |-> a.date_type, date |-> a.date, name |-> <<"A">>, days |-> <<"1", "2">>,
       start_time |-> <<"2", "3", ":", "0", "5">>, end_time |-> <<"2", "3", ":", "4", "5">>,
       image |-> <<"a", ".", "b", "m", "p">>, progress |-> <<>>, confirm |-> a.confirm] :
        a \in CreateAnswers }

\* the .bmp files of the images folder of the session
MenuImages == { <<"a", ".", "b", "m", "p">> }

\* what the prompts make of each set of answers
CreateReads == [inp \in CreateInputs |-> create_prompts(inp, MenuImages)]

\* default.csv as sync_default_and_local finds it, and which of the two
\* files was modified last
SyncDefaultFiles == { Absent, File(WeekdayRows) }

SyncNewer == { "default", "local", "same" }

----------------------------------------------------------------------------
(* The overlap detector applied to a loaded store *)

\* ScheduleManager.__init__ with a default.csv of up to MaxRecs rows, and
\* the arguments of one call
InitOverlap ==
    /\ \E rows \in ListsUpTo(OverlapSamples, MaxRecs) :
          /\ heap = [i \in 1..Len(rows) |-> rows[i]]
          /\ schedules = (DefaultKey :> [i \in 1..Len(rows) |-> i])
    /\ localFile = Absent
    /\ args \in [date : KeyInputs, days : DaysInputs, start_time : StartInputs,
                 end_time : EndInputs, exclude_name : ExcludeInputs]
    /\ overlaps = <<>>
    /\ lastOp = [op |-> "init"]
    /\ steps = 0
    /\ result = NoResult
    /\ events = <<>>
    /\ today = Today

CheckScheduleOverlap ==
    LET r == check_schedule_overlap(schedules, heap, args.date, args.days,
                                    args.start_time, args.end_time, args.exclude_name)
    IN  /\ overlaps' = r.overlaps
        /\ schedules' = r.schedules
        /\ heap' = r.heap
        /\ lastOp' = [op |-> "check_schedule_overlap", hits |-> r.hits,
                      raised |-> r.raised]
        /\ UNCHANGED <<localFile, args, steps, result, events, today>>

NextOverlap == CheckScheduleOverlap

----------------------------------------------------------------------------
(* The schedule menu on a loaded store *)

\* ScheduleManager.__init__ on the files f: one list of fresh dicts per
\* schedule file
StartsOn(f) ==
    LET d == f.default
        x == f.date
        nd == Len(d.rows)
        nx == Len(x.rows)
    IN  /\ localFile = f.local
        /\ heap = [i \in 1..(nd + nx) |->
                      IF i <= nd THEN d.rows[i] ELSE x.rows[i - nd]]
        /\ schedules =
              [k \in (IF d.exists THEN {DefaultKey} ELSE {})
                     \cup (IF x.exists THEN {Date1223} ELSE {}) |->
                  IF k = DefaultKey THEN [i \in 1..nd |-> i]
                  ELSE [i \in 1..nx |-> nd + i]]

Init ==
    /\ \E f \in StartFiles : StartsOn(f)
    /\ args = NoCall
    /\ overlaps = <<>>
    /\ lastOp = [op |-> "init"]
    /\ steps = 0
    /\ result = NoResult
    /\ events = <<>>
    /\ today = Today

\* what the handler did; calls lists its calls of check_schedule_overlap,
\* of which it has none, and its write to manager.schedules
TemplateOp(outcome, template_choice, source_date, mod_choice, target_date, target_day, source_rows, selected, written) ==
    [op |-> "create_from_template_interactive", outcome |-> outcome,
     template_choice |-> template_choice, source_date |-> source_date,
     mod_choice |-> mod_choice,
     target_date |-> target_date, target_day |-> target_day,
     source_rows |-> source_rows,
     origin |-> [k \in 1..Len(selected) |-> selected[k].origin],
     written |-> written,
     calls |-> IF outcome \in {"created", "replaced", "merged"}
               THEN <<"write">> ELSE <<>>]

\* the handler returns without touching the store
TemplateEnds(outcome) ==
    /\ lastOp' = TemplateOp(outcome, <<>>, <<>>, <<>>, <<>>, "", <<>>, <<>>, <<>>)
    /\ steps' = steps + 1
    /\ UNCHANGED <<schedules, heap, localFile, args, overlaps, result, events, today>>

CreateFromTemplate ==
    /\ steps < MaxSteps
    /\ \E template_choice \in MenuInputs :
         IF template_choice = <<"0">> THEN TemplateEnds("cancel")
         ELSE \E script \in DateScripts :
           LET t == TargetReads[script]
           IN  /\ t.state # "prompt"
               /\ t.rest = <<>>
               /\ IF t.state = "cancel" THEN TemplateEnds("cancel")
                  ELSE LET target_day == t.target_day
                  IN  IF target_day \notin DOMAIN DAY_NAMES THEN TemplateEnds("invalid date")
                      ELSE \E source_date \in (IF template_choice = <<"2">>
                                                THEN SourceInputs ELSE {<<>>}) :
                        LET tpl == load_template(schedules, heap, localFile,
                                                 template_choice, source_date, target_day)
                        IN  IF tpl.outcome # "ok" THEN TemplateEnds(tpl.outcome)
                            ELSE IF tpl.template = <<>> THEN TemplateEnds("empty template")
                            ELSE \E mod_choice \in MenuInputs :
                                 \E shift_input \in (IF mod_choice = <<"2">>
                                                      THEN ShiftInputs ELSE {<<>>}) :
                                 \E selection \in (IF mod_choice = <<"3">>
                                                    THEN SelectionInputs ELSE {<<>>}) :
                              LET sel == select_schedules(tpl.template, mod_choice,
                                                          shift_input, selection)
                              IN  IF sel.outcome # "ok" THEN TemplateEnds(sel.outcome)
                                  ELSE \E replace_choice \in
                                          (IF HasSchedules(schedules, t.target_date)
                                           THEN MenuInputs ELSE {<<>>}) :
                                    LET selected == RetagAll(sel.selected, target_day)
                                        r == store_selected(schedules, heap, t.target_date,
                                                            selected, replace_choice)
                                    IN  /\ schedules' = r.schedules
                                        /\ heap' = r.heap
                                        /\ lastOp' = TemplateOp(r.outcome, template_choice,
                                                        source_date, mod_choice,
                                                        t.target_date, target_day,
                                                        tpl.source_rows, selected,
                                                        r.written)
                                        /\ steps' = steps + 1
                                        /\ UNCHANGED <<localFile, args, overlaps, result, events, today>>

\* a call of manager.add_schedule
AddSchedule ==
    /\ steps < MaxSteps
    /\ \E date \in AddDateInputs, a \in AddInputs, available_images \in ImageFolders :
          LET r == add_schedule(schedules, heap, date, a.name, a.days, a.start_time,
                                a.end_time, a.image, TRUE, available_images)
          IN  /\ schedules' = r.schedules
              /\ heap' = r.heap
              /\ lastOp' = [op |-> "add_schedule", date |-> date, returned |-> r.returned,
                            added |-> IF r.returned THEN <<a>> ELSE <<>>]
    /\ steps' = steps + 1
    /\ UNCHANGED <<localFile, args, overlaps, result, events, today>>

\* a call of manager.delete_schedule_file; unlinked is whether the file,
\* if there is one, could be removed
DeleteScheduleFile ==
    /\ steps < MaxSteps
    /\ \E date \in DeleteInputs, unlinked \in BOOLEAN :
          LET r == delete_schedule_file(schedules, heap, date, unlinked)
          IN  /\ schedules' = r.schedules
              /\ heap' = r.heap
              /\ lastOp' = [op |-> "delete_schedule_file", date |-> date,
                            unlinked |-> unlinked, returned |-> r.returned]
    /\ steps' = steps + 1
    /\ UNCHANGED <<localFile, args, overlaps, result, events, today>>

Next == CreateFromTemplate \/ AddSchedule \/ DeleteScheduleFile

----------------------------------------------------------------------------
(* The schedule menu with its interactive handlers *)

\* the manager started for a session at the menu
InitMenu ==
    /\ \E f \in MenuStartFiles : StartsOn(f)
    /\ args = NoCall
    /\ overlaps = <<>>
    /\ lastOp = [op |-> "init"]
    /\ steps = 0
    /\ result = NoResult
    /\ events = <<>>
    /\ today = Today

EditSchedule ==
    /\ steps < MaxSteps
    /\ \E inp \in EditInputs :
        \E r \in { edit_schedule_interactive(schedules, heap, inp) } :
              /\ schedules' = r.schedules
              /\ heap' = r.heap
              /\ lastOp' = [op |-> "edit_schedule_interactive", outcome |-> r.outcome,
                            date |-> inp.date, index |-> r.index, ref |-> r.ref,
                            original |-> r.original,
                            overlaps |-> r.overlaps, calls |-> r.calls]
    /\ steps' = steps + 1
    /\ UNCHANGED <<localFile, args, overlaps, result, events, today>>

\* the handler up to its last prompt; a text a prompt loop refuses is asked
\* again, so only accepted texts reach the end
CreateSchedule ==
    /\ steps < MaxSteps
    /\ \E inp \in CreateInputs :
        \E r \in { create_schedule_interactive(schedules, heap, inp, MenuImages,
                                               CreateReads[inp]) } :
              /\ r.outcome # "prompt"
              /\ schedules' = r.schedules
              /\ heap' = r.heap
              /\ lastOp' = [op |-> "create_schedule_interactive", outcome |-> r.outcome,
                            date |-> r.date, days |-> r.days,
                            overlaps |-> r.overlaps, calls |-> r.calls]
    /\ steps' = steps + 1
    /\ UNCHANGED <<localFile, args, overlaps, result, events, today>>

\* copy_ok is whether shutil.copy2 returned without raising
SyncDefaultAndLocal ==
    /\ steps < MaxSteps
    /\ \E default_file \in SyncDefaultFiles, newer \in SyncNewer,
          confirm \in { <<"y">>, <<"n">> }, copy_ok \in BOOLEAN :
        \E r \in { sync_default_and_local(schedules, heap, default_file, localFile,
                                          newer, confirm, copy_ok) } :
              /\ schedules' = r.schedules
              /\ heap' = r.heap
              /\ localFile' = r.local
              /\ lastOp' = [op |-> "sync_default_and_local", outcome |-> r.outcome]
    /\ steps' = steps + 1
    /\ UNCHANGED <<args, overlaps, result, events, today>>

NextMenu == CreateFromTemplate \/ CreateSchedule \/ EditSchedule \/ SyncDefaultAndLocal

----------------------------------------------------------------------------
(* EventValidator.validate_event applied to what the user typed *)

InitEventValidator ==
    /\ schedules = << >>
    /\ heap = << >>
    /\ localFile = Absent
    /\ args \in [module : ModuleInputs, date : EventDateInputs, top_line : TopLineInputs,
                 bottom_line : BottomLineInputs, image : ImageInputs, color : ColorInputs,
                 start_hour : StartHourInputs, end_hour : EndHourInputs,
                 available_images : ImageFolders]
    /\ overlaps = <<>>
    /\ lastOp = [op |-> "init"]
    /\ steps = 0
    /\ result = NoResult
    /\ events = <<>>
    /\ today = Today

ValidateEvent ==
    /\ result.op = "none"
    /\ LET r == validate_event(args.module, args.date, args.top_line, args.bottom_line,
                               args.image, args.color, args.start_hour, args.end_hour,
                               today, args.available_images)
       IN  result' = [op |-> "validate_event", valid |-> r.valid, errors |-> r.errors]
    /\ UNCHANGED <<schedules, heap, localFile, args, overlaps, lastOp, steps, events, today>>

NextEventValidator == ValidateEvent

----------------------------------------------------------------------------
(* The event list of an EventManager *)

\* EventManager.__init__: the rows of the events file, in file order
InitEvents ==
    /\ schedules = << >>
    /\ heap = << >>
    /\ localFile = Absent
    /\ args = NoCall
    /\ overlaps = <<>>
    /\ lastOp = [op |-> "init"]
    /\ steps = 0
    /\ result = NoResult
    /\ events \in ListsUpTo(EventSamples, MaxEvents)
    /\ today = Today

\* EventManager.save
SaveEvents ==
    /\ steps < MaxSteps
    /\ events' = sort_by_date(events)
    /\ lastOp' = [op |-> "save", before |-> events]
    /\ steps' = steps + 1
    /\ UNCHANGED <<schedules, heap, localFile, args, overlaps, result, today>>

\* cleanup_past_events on the day `today'
CleanupPastEvents ==
    /\ steps < MaxSteps
    /\ LET r == cleanup_past_events(events, today)
       IN  /\ events' = r.events
           /\ lastOp' = [op |-> "cleanup_past_events", before |-> events,
                         raised |-> r.raised]
    /\ steps' = steps + 1
    /\ UNCHANGED <<schedules, heap, localFile, args, overlaps, result, today>>

NextEvents == SaveEvents \/ CleanupPastEvents

----------------------------------------------------------------------------
(* The time adjustment applied to a template, then undone *)

\* a template of up to MaxRecs copied rows and the shift the user types
InitShift ==
    /\ schedules = << >>
    /\ heap = << >>
    /\ localFile = Absent
    /\ \E rows \in ListsUpTo(ShiftSamples, MaxRecs), shift_input \in ShiftCallInputs :
          args = [template |-> CopyAll(rows), shift_input |-> shift_input]
    /\ overlaps = <<>>
    /\ lastOp = [op |-> "init"]
    /\ steps = 0
    /\ result = NoResult
    /\ events = <<>>
    /\ today = Today

\* option 2 on the template
ShiftTemplate ==
    /\ result.op = "none"
    /\ LET r == select_schedules(args.template, <<"2">>, args.shift_input, <<>>)
       IN  result' = [op |-> "shift", outcome |-> r.outcome, selected |-> r.selected]
    /\ UNCHANGED <<schedules, heap, localFile, args, overlaps, lastOp, steps, events, today>>

\* option 2 on the adjusted rows, with the opposite shift
ShiftBack ==
    /\ result.op = "shift"
    /\ result.outcome = "ok"
    /\ LET r == select_schedules(result.selected, <<"2">>,
                                 str(0 - int(args.shift_input)), <<>>)
       IN  result' = [op |-> "shift_back", outcome |-> r.outcome, selected |-> r.selected]
    /\ UNCHANGED <<schedules, heap, localFile, args, overlaps, lastOp, steps, events, today>>

NextShift == ShiftTemplate \/ ShiftBack

----------------------------------------------------------------------------
(* ScheduleValidator and the weekday of a date key *)

InitScheduleValidator ==
    /\ schedules = << >>
    /\ heap = << >>
    /\ localFile = Absent
    /\ args \in ValidatorCalls
    /\ overlaps = <<>>
    /\ lastOp = [op |-> "init"]
    /\ steps = 0
    /\ result = NoResult
    /\ events = <<>>
    /\ today = Today

ValidateDays ==
    /\ result.op = "none"
    /\ LET r == validate_days(args.days)
       IN  result' = [op |-> "validate_days", valid |-> r.valid, msg |-> r.msg]
    /\ UNCHANGED <<schedules, heap, localFile, args, overlaps, lastOp, steps, events, today>>

ValidateSchedule ==
    /\ result.op = "none"
    /\ LET r == validate_schedule(args.name, args.days, args.start_time, args.end_time,
                                  args.image, args.available_images)
       IN  result' = [op |-> "validate_schedule", valid |-> r.valid, errors |-> r.errors]
    /\ UNCHANGED <<schedules, heap, localFile, args, overlaps, lastOp, steps, events, today>>

\* create_schedule_interactive on a date key: the days it sets, and what
\* validate_days says of them
AutoSetDays ==
    /\ result.op = "none"
    /\ LET days == auto_set_days(args.date)
       IN  result' = [op |-> "auto_set_days", days |-> days,
                      valid |-> validate_days(days).valid]
    /\ UNCHANGED <<schedules, heap, localFile, args, overlaps, lastOp, steps, events, today>>

\* create_from_template_interactive: the target day of the date, or the
\* handler's return on 'Invalid date'
TargetDay ==
    /\ result.op = "none"
    /\ LET target_day == target_day_of(args.date)
       IN  result' = [op |-> "target_day", target_day |-> target_day,
                      named |-> target_day \in DOMAIN DAY_NAMES,
                      valid |-> validate_days(<<target_day>>).valid]
    /\ UNCHANGED <<schedules, heap, localFile, args, overlaps, lastOp, steps, events, today>>

NextScheduleValidator == ValidateDays \/ ValidateSchedule \/ AutoSetDays \/ TargetDay

Spec == Init /\ [][Next]_vars

SpecOverlap == InitOverlap /\ [][NextOverlap]_vars

SpecShift == InitShift /\ [][NextShift]_vars

SpecEventValidator == InitEventValidator /\ [][NextEventValidator]_vars

SpecEvents == InitEvents /\ [][NextEvents]_vars

SpecScheduleValidator == InitScheduleValidator /\ [][NextScheduleValidator]_vars

SpecMenu == InitMenu /\ [][NextMenu]_vars

----------------------------------------------------------------------------
(* Properties of check_schedule_overlap *)

CheckDone == lastOp.op = "check_schedule_overlap"

\* the key exists and both candidate times parse
CandOk ==
    /\ args.date \in DOMAIN schedules
    /\ parse_time(args.start_time).ok
    /\ parse_time(args.end_time).ok

CandStart == parse_time(args.start_time).h * 60 + parse_time(args.start_time).m
CandEnd == parse_time(args.end_time).h * 60 + parse_time(args.end_time).m

KeyLen == IF args.date \in DOMAIN schedules THEN Len(schedules[args.date]) ELSE 0
Stored(i) == heap[schedules[args.date][i]]

IntFields(r) ==
    /\ int_ok(r.start_hour) /\ int_ok(r.start_min)
    /\ int_ok(r.end_hour) /\ int_ok(r.end_min)

RStart(r) == int(r.start_hour) * 60 + int(r.start_min)
REnd(r) == int(r.end_hour) * 60 + int(r.end_min)

CommonDays(r) == set(args.days) \cap set(r.days)

\* the record's name is the exclude_name that was passed
NameExcluded(r) == args.exclude_name.given /\ r.name = args.exclude_name.value

\* the scan skips the record as the one being edited
Skipped(r) ==
    args.exclude_name.given /\ args.exclude_name.value # <<>>
    /\ r.name = args.exclude_name.value

WindowsIntersect(r) == CandStart < REnd(r) /\ CandEnd > RStart(r)

\* the record at position i is a conflict of the candidate
Conflicting(i) ==
    /\ ~Skipped(Stored(i))
    /\ CommonDays(Stored(i)) # {}
    /\ IntFields(Stored(i))
    /\ WindowsIntersect(Stored(i))

\* the call returned a descriptor for the record at position i
Reported(i) ==
    \E k \in 1..Len(overlaps) :
        /\ k <= Len(lastOp.hits)
        /\ lastOp.hits[k] = i
        /\ overlaps[k].name = Stored(i).name

\* the day symbols a descriptor names
DescriptorDays(d) ==
    LET names == split(d.days, ",")
    IN  { c \in DOMAIN DAY_NAMES : \E k \in 1..Len(names) : names[k] = DAY_NAMES[c] }

\* C1: a stored record that is not excluded, has integer time fields and
\* shares a day with the candidate is reported iff
\* candidate.start < r.end and candidate.end > r.start in minutes of day;
\* touching windows are not reported.
C1_ReportedIffWindowsIntersect ==
    (CheckDone /\ CandOk) =>
        \A i \in 1..KeyLen :
            (/\ ~NameExcluded(Stored(i))
             /\ IntFields(Stored(i))
             /\ CommonDays(Stored(i)) # {})
            => (Reported(i) <=> (CandStart < REnd(Stored(i)) /\ CandEnd > RStart(Stored(i))))

\* a touching record is left out and an overlapping one is reported
C1_Witness ==
    /\ CheckDone /\ CandOk
    /\ \E i, j \in 1..KeyLen :
          /\ ~NameExcluded(Stored(i)) /\ IntFields(Stored(i)) /\ CommonDays(Stored(i)) # {}
          /\ REnd(Stored(i)) = CandStart
          /\ ~Reported(i)
          /\ ~NameExcluded(Stored(j)) /\ IntFields(Stored(j)) /\ CommonDays(Stored(j)) # {}
          /\ CandStart < REnd(Stored(j)) /\ CandEnd > RStart(Stored(j))
          /\ Reported(j)

\* C2: no reported record is day-disjoint from the candidate, and the
\* result is empty when every record of the key is day-disjoint.
C2_DisjointDaysNeverReported ==
    CheckDone =>
        /\ \A i \in 1..KeyLen : CommonDays(Stored(i)) = {} => ~Reported(i)
        /\ Len(lastOp.hits) = Len(overlaps)
        /\ (\A i \in 1..KeyLen : CommonDays(Stored(i)) = {}) => overlaps = <<>>

\* a day-disjoint record whose window intersects the candidate's
C2_Witness ==
    /\ CheckDone /\ CandOk /\ overlaps = <<>>
    /\ \E i \in 1..KeyLen :
          /\ CommonDays(Stored(i)) = {} /\ args.days # <<>>
          /\ ~NameExcluded(Stored(i)) /\ IntFields(Stored(i))
          /\ WindowsIntersect(Stored(i))

\* C3: a call of check_schedule_overlap leaves the keys, the record order
\* and the field values of the store as they were.
C3_CheckNeverMutates ==
    [][lastOp'.op = "check_schedule_overlap" => (schedules' = schedules /\ heap' = heap)]_vars

\* a call on a key that is not in the store
C3_Witness ==
    /\ CheckDone
    /\ args.date \notin DOMAIN schedules
    /\ DOMAIN schedules = {DefaultKey}

\* C4: the call never raises; a record with a non-integer time field is
\* not reported and every conflicting record is.
C4_MalformedSkipped ==
    CheckDone =>
        /\ ~lastOp.raised
        /\ CandOk =>
              /\ \A i \in 1..KeyLen : ~IntFields(Stored(i)) => ~Reported(i)
              /\ \A i \in 1..KeyLen : Conflicting(i) => Reported(i)

\* a malformed record reached by the scan, followed by a reported conflict
C4_Witness ==
    /\ CheckDone /\ CandOk /\ ~lastOp.raised
    /\ \E i, j \in 1..KeyLen :
          /\ i < j
          /\ ~IntFields(Stored(i)) /\ ~Skipped(Stored(i)) /\ CommonDays(Stored(i)) # {}
          /\ Conflicting(j) /\ Reported(j)

\* C5: the result holds one descriptor per conflicting record, in stored
\* order.
C5_AllConflictsInOrder ==
    (CheckDone /\ CandOk) =>
        /\ Len(overlaps) = Cardinality({ i \in 1..KeyLen : Conflicting(i) })
        /\ Len(lastOp.hits) = Len(overlaps)
        /\ \A k \in 1..Len(overlaps) :
              /\ lastOp.hits[k] \in 1..KeyLen
              /\ Conflicting(lastOp.hits[k])
              /\ overlaps[k].name = Stored(lastOp.hits[k]).name
              /\ \A l \in 1..(k - 1) : lastOp.hits[l] < lastOp.hits[k]

\* two conflicting records of the same name give two descriptors
C5_Witness ==
    /\ CheckDone /\ CandOk
    /\ Len(overlaps) = 2
    /\ overlaps[1].name = overlaps[2].name
    /\ Conflicting(1) /\ Conflicting(2)

\* C6: with exclude_name given no descriptor has that name, and a record
\* of another name is reported exactly as without exclude_name.
C6_ExcludedNameNeverReported ==
    (CheckDone /\ args.exclude_name.given) =>
        /\ \A k \in 1..Len(overlaps) : overlaps[k].name # args.exclude_name.value
        /\ \A i \in 1..KeyLen :
              Stored(i).name # args.exclude_name.value =>
                  (Reported(i) <=>
                      \E k \in 1..Len(check_schedule_overlap(schedules, heap, args.date,
                                          args.days, args.start_time, args.end_time, None).hits) :
                          check_schedule_overlap(schedules, heap, args.date, args.days,
                              args.start_time, args.end_time, None).hits[k] = i)

\* C7: a descriptor carries the record's name, its window, and as days
\* the whole intersection of the candidate's and the record's days.
C7_DescriptorFullIntersection ==
    CheckDone =>
        \A k \in 1..Len(overlaps) :
            LET r == Stored(lastOp.hits[k])
                d == overlaps[k]
            IN  /\ d.name = r.name
                /\ parse_time(d.start).ok /\ parse_time(d.end).ok
                /\ parse_time(d.start).h * 60 + parse_time(d.start).m = RStart(r)
                /\ parse_time(d.end).h * 60 + parse_time(d.end).m = REnd(r)
                /\ DescriptorDays(d) = CommonDays(r)

\* the store and the candidate of the example
C8_Case ==
    /\ args = [date |-> DefaultKey, days |-> <<"3", "7">>,
               start_time |-> <<"0", "8", ":", "3", "0">>,
               end_time |-> <<"0", "8", ":", "4", "5">>, exclude_name |-> None]
    /\ DOMAIN schedules = {DefaultKey}
    /\ Len(schedules[DefaultKey]) = 1
    /\ LET r == heap[schedules[DefaultKey][1]]
       IN  /\ r.name = <<"A">>
           /\ r.days = <<"1", "2", "3", "4", "5", "6", "7">>
           /\ IntFields(r) /\ RStart(r) = 8 * 60 /\ REnd(r) = 9 * 60

----------------------------------------------------------------------------
(* Properties of create_from_template_interactive *)

\* the last run of the handler wrote records into the store
TemplateStored ==
    /\ lastOp.op = "create_from_template_interactive"
    /\ lastOp.outcome \in {"created", "replaced", "merged"}

\* the source collection of the last run is one the handler filters by day
FilteredSource ==
    \/ lastOp.template_choice = <<"1">>
    \/ lastOp.template_choice = <<"3">>
    \/ lastOp.template_choice = <<"2">> /\ lastOp.source_date = DefaultKey

\* C9: every record a derivation writes into the store has days equal to
\* the single weekday token of the target date.
C9_WrittenDaysAreTargetDay ==
    TemplateStored =>
        /\ lastOp.written # <<>>
        /\ lastOp.target_date = Date1223 => lastOp.target_day = "2"
        /\ lastOp.target_date = Date1224 => lastOp.target_day = "3"
        /\ lastOp.target_date \in DOMAIN schedules
        /\ LET list == schedules[lastOp.target_date]
               n == Len(lastOp.written)
           IN  /\ Len(list) >= n
               /\ SubSeq(list, Len(list) - n + 1, Len(list)) = lastOp.written
        /\ \A k \in 1..Len(lastOp.written) :
              /\ lastOp.written[k] \in DOMAIN heap
              /\ heap[lastOp.written[k]].days = <<lastOp.target_day>>

\* records of a multi-day source merged into an existing key
C9_Witness ==
    /\ TemplateStored
    /\ lastOp.outcome = "merged"
    /\ \E k \in 1..Len(lastOp.written) :
          /\ Len(lastOp.source_rows[lastOp.origin[k]].days) > 1
          /\ heap[lastOp.written[k]].days = <<lastOp.target_day>>

\* C10 as stated: whatever the source collection, every derived record
\* comes from a source record whose days contain the target day.
C10_EverySourceFiltered ==
    TemplateStored =>
        \A k \in 1..Len(lastOp.written) :
            lastOp.target_day \in set(lastOp.source_rows[lastOp.origin[k]].days)

\* C10 amended: from the default key or the local device file every derived
\* record comes from a source record whose days contain the target day;
\* from another key all its records are copied whatever their days.
C10_DefaultAndLocalFiltered ==
    TemplateStored =>
        /\ FilteredSource =>
              \A k \in 1..Len(lastOp.written) :
                  lastOp.target_day \in set(lastOp.source_rows[lastOp.origin[k]].days)
        /\ (~FilteredSource /\ lastOp.mod_choice \in {<<"1">>, <<"2">>}) =>
              lastOp.origin = [i \in 1..Len(lastOp.source_rows) |-> i]

\* a derivation from a filtered source that left a source record out
C10_Witness ==
    /\ TemplateStored /\ FilteredSource
    /\ lastOp.written # <<>>
    /\ \E i \in 1..Len(lastOp.source_rows) :
          /\ lastOp.target_day \notin set(lastOp.source_rows[i].days)
          /\ \A k \in 1..Len(lastOp.origin) : lastOp.origin[k] # i

----------------------------------------------------------------------------
(* Properties of the time adjustment *)

ShiftedBack == result.op = "shift_back" /\ result.outcome = "ok"

ShiftMinutes == int(args.shift_input)

\* the adjusted start and end totals of the record stay within the day
ShiftInDay(r) ==
    /\ RStart(r) + ShiftMinutes >= 0 /\ RStart(r) + ShiftMinutes < 1440
    /\ REnd(r) + ShiftMinutes >= 0 /\ REnd(r) + ShiftMinutes < 1440

\* the four time fields are written the way str() writes an hour and a
\* minute below 60
CanonicalTimes(r) ==
    /\ r.start_hour = str(int(r.start_hour)) /\ r.start_min = str(int(r.start_min))
    /\ r.end_hour = str(int(r.end_hour)) /\ r.end_min = str(int(r.end_min))
    /\ int(r.start_min) \in 0..59 /\ int(r.end_min) \in 0..59

SameTimeFields(a, b) ==
    /\ a.start_hour = b.start_hour /\ a.start_min = b.start_min
    /\ a.end_hour = b.end_hour /\ a.end_min = b.end_min

\* C11 as stated: a shift of s minutes then of -s minutes reproduces the
\* four time fields of every record exactly, when the shifted totals stay
\* within [0,1440).
C11_RoundTripFieldsExact ==
    ShiftedBack =>
        \A k \in 1..Len(args.template) :
            ShiftInDay(args.template[k].rec) =>
                SameTimeFields(result.selected[k].rec, args.template[k].rec)

\* C11 amended: the round trip reproduces the start and end minute totals
\* of every record, and the four fields exactly for a record whose fields
\* are written as str() writes them with minutes below 60.
C11_RoundTripTotals ==
    ShiftedBack =>
        /\ Len(result.selected) = Len(args.template)
        /\ \A k \in 1..Len(args.template) :
              ShiftInDay(args.template[k].rec) =>
                  /\ IntFields(result.selected[k].rec)
                  /\ RStart(result.selected[k].rec) = RStart(args.template[k].rec)
                  /\ REnd(result.selected[k].rec) = REnd(args.template[k].rec)
                  /\ CanonicalTimes(args.template[k].rec) =>
                        SameTimeFields(result.selected[k].rec, args.template[k].rec)

\* a record written as str() writes it taken across an hour boundary and
\* back, next to one whose fields come back rewritten
C11_Witness ==
    /\ ShiftedBack
    /\ ShiftMinutes # 0
    /\ \E k, l \in 1..Len(args.template) :
          /\ CanonicalTimes(args.template[k].rec) /\ ShiftInDay(args.template[k].rec)
          /\ (RStart(args.template[k].rec) + ShiftMinutes) \div 60
                # int(args.template[k].rec.start_hour)
          /\ SameTimeFields(result.selected[k].rec, args.template[k].rec)
          /\ ShiftInDay(args.template[l].rec)
          /\ ~SameTimeFields(result.selected[l].rec, args.template[l].rec)

----------------------------------------------------------------------------
(* Properties of the derivation's result and of the store writes *)

\* the last run took its template from the default key
FromDefault ==
    \/ lastOp.template_choice = <<"1">>
    \/ lastOp.template_choice = <<"2">> /\ lastOp.source_date = DefaultKey

\* the records the last run wrote, as values
WrittenRows == [k \in 1..Len(lastOp.written) |-> heap[lastOp.written[k]]]

\* the rows of a list whose days contain the token t, in their order
RowsOnDay(rows, t) == SelectSeq(rows, LAMBDA r : \E i \in 1..Len(r.days) : r.days[i] = t)

TemplateStep(outcome) ==
    /\ lastOp'.op = "create_from_template_interactive"
    /\ lastOp'.outcome = outcome

\* every key but one keeps its list and its records
OtherKeysKept(key) ==
    /\ DOMAIN schedules' \ {key} = DOMAIN schedules \ {key}
    /\ \A k \in DOMAIN schedules \ {key} :
          /\ schedules'[k] = schedules[k]
          /\ \A i \in 1..Len(schedules[k]) : heap'[schedules[k][i]] = heap[schedules[k][i]]

\* C13: a merge leaves the key holding the list E it held followed by the
\* derived list D, one record per derived record whatever E holds; a
\* second merge of the same derivation leaves E, D, D.
C13_MergeAppends ==
    [][TemplateStep("merged") =>
          LET key == lastOp'.target_date
          IN  /\ key \in DOMAIN schedules /\ schedules[key] # <<>>
              /\ schedules'[key] = schedules[key] \o lastOp'.written
              /\ Len(lastOp'.written) = Len(lastOp'.origin)
              /\ Len(schedules'[key]) = Len(schedules[key]) + Len(lastOp'.origin)
              /\ \A i \in 1..Len(schedules[key]) :
                    heap'[schedules[key][i]] = heap[schedules[key][i]]
              /\ \A k \in 1..Len(lastOp'.written) :
                    /\ lastOp'.written[k] \notin DOMAIN heap
                    /\ heap'[lastOp'.written[k]].name
                          = lastOp'.source_rows[lastOp'.origin[k]].name]_vars

\* the key of 2025-12-23 after the same derivation was merged twice into
\* the rows of its file: E, D, D
C13_Witness ==
    /\ TemplateStored /\ lastOp.outcome = "merged"
    /\ lastOp.target_date = Date1223
    /\ WrittenRows # <<>>
    /\ RowsOf(schedules, heap, Date1223) = DateRows \o WrittenRows \o WrittenRows

\* C14: a replace leaves the key holding exactly the derived records in
\* derived order, none of the records it held, and every other key as it
\* was.
C14_ReplaceDiscards ==
    [][TemplateStep("replaced") =>
          LET key == lastOp'.target_date
          IN  /\ key \in DOMAIN schedules /\ schedules[key] # <<>>
              /\ schedules'[key] = lastOp'.written
              /\ Len(lastOp'.written) = Len(lastOp'.origin)
              /\ \A i \in 1..Len(schedules[key]) :
                    \A k \in 1..Len(schedules'[key]) :
                        schedules'[key][k] # schedules[key][i]
              /\ \A k \in 1..Len(lastOp'.written) :
                    /\ heap'[lastOp'.written[k]].name
                          = lastOp'.source_rows[lastOp'.origin[k]].name
                    /\ heap'[lastOp'.written[k]].days = <<lastOp'.target_day>>
              /\ OtherKeysKept(key)]_vars

\* the rows of the file of 2025-12-23 replaced by a derivation from default
C14_Witness ==
    /\ TemplateStored /\ lastOp.outcome = "replaced"
    /\ lastOp.target_date = Date1223 /\ FromDefault
    /\ steps = 1
    /\ \A i \in 1..Len(schedules[Date1223]) :
          heap[schedules[Date1223][i]].name # DateRows[1].name
    /\ RowsOf(schedules, heap, DefaultKey) = DefaultRows

\* C15: a run of the handler that ends otherwise than by create, replace
\* or merge leaves all keys and all records as they were.
C15_NoInsertUnlessStored ==
    [][(/\ lastOp'.op = "create_from_template_interactive"
        /\ lastOp'.outcome \notin {"created", "replaced", "merged"})
       => (schedules' = schedules /\ heap' = heap)]_vars

\* a run cancelled at the replace-or-merge question, after the records
\* were selected and retagged
C15_Witness ==
    /\ lastOp.op = "create_from_template_interactive"
    /\ lastOp.outcome = "cancel"
    /\ lastOp.target_date = Date1223
    /\ Len(lastOp.origin) > 0
    /\ steps = 1
    /\ RowsOf(schedules, heap, Date1223) = DateRows
    /\ RowsOf(schedules, heap, DefaultKey) = DefaultRows

----------------------------------------------------------------------------
(* Properties of validate_event *)

EventValidated == result.op = "validate_event"

\* the text is empty or blank, or longer than 12 characters
TextFails(text) == (\A i \in 1..Len(text) : text[i] = " ") \/ Len(text) > 12

DateFails ==
    \/ ~IsDateFormat(args.date)
    \/ ~strptime(args.date).ok
    \/ DateBefore(strptime(args.date), strptime(today))

ImageFails ==
    IF args.available_images = {}
    THEN ~(Len(args.image) >= 4 /\ SubSeq(args.image, Len(args.image) - 3, Len(args.image))
                                     = <<".", "b", "m", "p">>)
    ELSE args.image \notin args.available_images

ColorFails ==
    upper(args.color) \notin
        { ColorsOf(args.module)[k] : k \in 1..Len(ColorsOf(args.module)) }

HourFails(hour) ==
    hour.given /\ ~(int_ok(hour.value) /\ int(hour.value) \in 0..23)

HourRangeFails ==
    /\ args.start_hour.given /\ args.end_hour.given
    /\ int_ok(args.start_hour.value) /\ int_ok(args.end_hour.value)
    /\ ~(int(args.start_hour.value) < int(args.end_hour.value))

\* the checks of the call that fail: date, top line, bottom line, image,
\* color, start hour, end hour, start before end
FailedChecks ==
    { c \in 1..8 :
        \/ c = 1 /\ DateFails
        \/ c = 2 /\ TextFails(args.top_line)
        \/ c = 3 /\ TextFails(args.bottom_line)
        \/ c = 4 /\ ImageFails
        \/ c = 5 /\ ColorFails
        \/ c = 6 /\ HourFails(args.start_hour)
        \/ c = 7 /\ HourFails(args.end_hour)
        \/ c = 8 /\ HourRangeFails }

HasError(msg) == \E k \in 1..Len(result.errors) : result.errors[k] = msg

\* C16: validate_event returns one error for every check that fails and
\* is valid iff there is none; yesterday's date and a 13-character top
\* line get the date-in-past error and the length error from one call.
C16_ErrorsAccumulate ==
    EventValidated =>
        /\ Len(result.errors) = Cardinality(FailedChecks)
        /\ result.valid <=> result.errors = <<>>
        /\ (args.date = Yesterday /\ Len(args.top_line) = 13) =>
              /\ HasError("Date: Date is in the past (today is 2025-12-23)")
              /\ HasError("Top Line too long (max 12 chars)")

\* the example, in a call where the other checks pass
C16_Witness ==
    /\ EventValidated
    /\ args.date = Yesterday /\ Len(args.top_line) = 13
    /\ FailedChecks = {1, 2}
    /\ Len(result.errors) = 2
    /\ ~result.valid

----------------------------------------------------------------------------
(* Properties of add_schedule and delete_schedule_file *)

\* the list of a key, empty when the key is not in the store
ListOf(store, key) == IF key \in DOMAIN store THEN store[key] ELSE <<>>

\* C17: an add_schedule call whose fields pass validation appends exactly
\* one record at the end of the key's list, creating the key if absent,
\* whatever names the key already holds; the earlier records keep their
\* order and values and every other key is unchanged.
C17_AddAppendsOne ==
    [][(lastOp'.op = "add_schedule" /\ lastOp'.returned) =>
          LET key == lastOp'.date
              old == ListOf(schedules, key)
              a == lastOp'.added[1]
          IN  /\ key \in DOMAIN schedules'
              /\ Len(schedules'[key]) = Len(old) + 1
              /\ SubSeq(schedules'[key], 1, Len(old)) = old
              /\ \A i \in 1..Len(old) : heap'[old[i]] = heap[old[i]]
              /\ schedules'[key][Len(old) + 1] \notin DOMAIN heap
              /\ LET new == heap'[schedules'[key][Len(old) + 1]]
                 IN  /\ new.name = a.name /\ new.days = a.days /\ new.image = a.image
                     /\ IntFields(new)
                     /\ RStart(new) = parse_time(a.start_time).h * 60
                                          + parse_time(a.start_time).m
                     /\ REnd(new) = parse_time(a.end_time).h * 60
                                        + parse_time(a.end_time).m
              /\ OtherKeysKept(key)]_vars

\* a second record named A appended to the default key, after the one
\* its file holds
C17_Witness ==
    /\ lastOp.op = "add_schedule" /\ lastOp.returned
    /\ lastOp.date = DefaultKey
    /\ steps = 1
    /\ Len(schedules[DefaultKey]) = 2
    /\ heap[schedules[DefaultKey][1]] = WeekdayRows[1]
    /\ heap[schedules[DefaultKey][2]].name = heap[schedules[DefaultKey][1]].name

\* C18: a successful delete_schedule_file removes the key and leaves every
\* other key and its records unchanged; on a key that is not in the store,
\* or whose file cannot be removed, it returns failure and leaves the
\* store unchanged.
C18_DeleteRemovesKey ==
    [][lastOp'.op = "delete_schedule_file" =>
          LET key == lastOp'.date
          IN  /\ lastOp'.returned <=> (key \in DOMAIN schedules /\ lastOp'.unlinked)
              /\ lastOp'.returned =>
                    /\ key \notin DOMAIN schedules'
                    /\ OtherKeysKept(key)
              /\ ~lastOp'.returned => (schedules' = schedules /\ heap' = heap)]_vars

\* the key of 2025-12-23 deleted, the default key left with its rows
C18_Witness ==
    /\ lastOp.op = "delete_schedule_file" /\ lastOp.returned
    /\ lastOp.date = Date1223
    /\ steps = 1
    /\ DOMAIN schedules = {DefaultKey}
    /\ RowsOf(schedules, heap, DefaultKey) = DefaultRows

----------------------------------------------------------------------------
(* Properties of EventManager.save *)

Saved == lastOp.op = "save"

EventDate(e) == strptime(e[1])

\* the positions of a list that hold the row e
PositionsOf(rows, e) == { i \in 1..Len(rows) : rows[i] = e }

\* the rows of a list dated as e is, in their order
SameDateRows(rows, e) ==
    SelectSeq(rows, LAMBDA x : IF EventDate(e).ok THEN EventDate(x) = EventDate(e) ELSE x[1] = e[1])

\* C19: after save the event list is in non-decreasing date order (of the
\* dates that can be read), holds
\* the same rows as before, each as many times, and rows of equal date
\* keep their relative order.
C19_SaveSortsByDate ==
    Saved =>
        /\ \A i, j \in 1..Len(events) :
              (i < j /\ EventDate(events[i]).ok /\ EventDate(events[j]).ok) =>
                  ~DateBefore(EventDate(events[j]), EventDate(events[i]))
        /\ Len(events) = Len(lastOp.before)
        /\ \A i \in 1..Len(lastOp.before) :
              Cardinality(PositionsOf(events, lastOp.before[i]))
                  = Cardinality(PositionsOf(lastOp.before, lastOp.before[i]))
        /\ \A i \in 1..Len(lastOp.before) :
              SameDateRows(events, lastOp.before[i])
                  = SameDateRows(lastOp.before, lastOp.before[i])

----------------------------------------------------------------------------
(* The time window of stored records *)

\* 0 <= start_minute < end_minute < 1440
WindowInDay(r) ==
    IntFields(r) /\ 0 <= RStart(r) /\ RStart(r) < REnd(r) /\ REnd(r) < 1440

\* every record of the store, and every row of the local device file a
\* template can be taken from, has its window within the day
AllWindowsInDay(store, h, file) ==
    /\ \A k \in DOMAIN store : \A i \in 1..Len(store[k]) : WindowInDay(h[store[k][i]])
    /\ \A i \in 1..Len(file.rows) : WindowInDay(file.rows[i])

\* C20: from a store in which every record has 0 <= start_minute <
\* end_minute < 1440, every record of the store still has after add_schedule
\* or a template derivation (copy, time shift, selection; create, replace or
\* merge).
C20_TimeWindowKept ==
    [][AllWindowsInDay(schedules, heap, localFile)
          => AllWindowsInDay(schedules', heap', localFile')]_vars

----------------------------------------------------------------------------
(* Properties of ScheduleValidator *)

DaysValidated == result.op = "validate_days"

InAlphabet(days_str) == \A i \in 1..Len(days_str) : days_str[i] \in set(VALID_DAYS)

Distinct(days_str) ==
    \A i, j \in 1..Len(days_str) : i # j => days_str[i] # days_str[j]

\* the first character of the string that is not a weekday symbol
FirstOutside(days_str) ==
    days_str[CHOOSE k \in 1..Len(days_str) :
                 /\ days_str[k] \notin set(VALID_DAYS)
                 /\ \A j \in 1..(k - 1) : days_str[j] \in set(VALID_DAYS)]

C27_WeekdayTokenAccepted ==
    /\ result.op = "target_day" =>
          (strptime(args.date).ok => result.named /\ result.valid)
    /\ result.op = "auto_set_days" =>
          (strptime(args.date).ok =>
              /\ Len(result.days) = 1
              /\ result.days[1] \in DOMAIN DAY_NAMES
              /\ result.valid)

ScheduleValidated == result.op = "validate_schedule"

TimesWellFormed ==
    validate_time_format(args.start_time).valid /\ validate_time_format(args.end_time).valid

RangeErrorReported ==
    \E i \in 1..Len(result.errors) : result.errors[i] = "Start time must be before end time"

\* C28: validate_schedule reports the range error whenever both times are
\* well formed and the start is not before the end, whatever the name and
\* the days are; it reports none when a time is malformed.
C28_RangeErrorWheneverTimesWellFormed ==
    ScheduleValidated =>
        IF TimesWellFormed
        THEN RangeErrorReported
                 <=> ~validate_time_range(args.start_time, args.end_time).valid
        ELSE ~RangeErrorReported

----------------------------------------------------------------------------
(* The time adjustment: window length and orientation *)

Shifted == result.op = "shift" /\ result.outcome = "ok"

\* C30: the time adjustment by s minutes gives every record of integer
\* fields the totals start + s and end + s, written with both minute
\* fields in 0..59, also when a total falls below 0 or reaches 1440: the
\* length of the window is unchanged and the start stays before the end.
C30_ShiftKeepsLengthAndOrder ==
    Shifted =>
        /\ Len(result.selected) = Len(args.template)
        /\ \A k \in 1..Len(args.template) :
              LET old == args.template[k].rec
                  new == result.selected[k].rec
              IN  IntFields(old) =>
                    /\ IntFields(new)
                    /\ RStart(new) = RStart(old) + ShiftMinutes
                    /\ REnd(new) = REnd(old) + ShiftMinutes
                    /\ int(new.start_min) \in 0..59 /\ int(new.end_min) \in 0..59
                    /\ REnd(new) - RStart(new) = REnd(old) - RStart(old)
                    /\ RStart(old) < REnd(old) => RStart(new) < REnd(new)

\* 7:45-8:15 moved eight hours back: the start is 15 minutes before
\* midnight, written as hour -1 and minute 45
C30_Witness ==
    /\ Shifted
    /\ ShiftMinutes = 0 - 480
    /\ \E k \in 1..Len(args.template) :
          /\ RStart(args.template[k].rec) = 465
          /\ result.selected[k].rec.start_hour = <<"-", "1">>
          /\ result.selected[k].rec.start_min = <<"4", "5">>
          /\ result.selected[k].rec.end_hour = <<"0">>
          /\ result.selected[k].rec.end_min = <<"1", "5">>

----------------------------------------------------------------------------
(* Properties of cleanup_past_events *)

CleanedUp == lastOp.op = "cleanup_past_events"

Parses(e) == strptime(e[1]).ok

FromToday(e) == ~DateBefore(strptime(e[1]), strptime(today))

\* C29: cleanup_past_events leaves every event dated today or later, in
\* the same relative order, and no event dated earlier; when the date of
\* an event cannot be parsed the call fails and the list is as it was.
C29_CleanupRemovesPastEvents ==
    CleanedUp =>
        IF \A i \in 1..Len(lastOp.before) : Parses(lastOp.before[i])
        THEN /\ ~lastOp.raised
             /\ events = SelectSeq(lastOp.before, FromToday)
        ELSE /\ lastOp.raised
             /\ events = lastOp.before

\* yesterday's event removed from between an event of today and a later one
C29_Witness ==
    /\ CleanedUp /\ ~lastOp.raised
    /\ Len(lastOp.before) = 3
    /\ lastOp.before[1][1] = Today
    /\ lastOp.before[2][1] = Yesterday
    /\ events = <<lastOp.before[1], lastOp.before[3]>>

----------------------------------------------------------------------------
(* Properties of the interactive handlers: the overlap check and the edit *)

\* the handlers that put records into a key or change a stored record
WritingHandlers ==
    { "create_schedule_interactive", "create_from_template_interactive",
      "edit_schedule_interactive" }

\* every write of the handler comes after a call of check_schedule_overlap
CheckedBeforeWrite(calls) ==
    \A j \in 1..Len(calls) :
        calls[j] = "write" => \E i \in 1..(j - 1) : calls[i] = "check_schedule_overlap"

\* C22: a step of create schedule, create from template or edit schedule
\* that changes manager.schedules or a stored dict has called
\* check_schedule_overlap before its first write.
C22_OverlapCheckPrecedesWrite ==
    [][(/\ lastOp'.op \in WritingHandlers
        /\ (schedules' # schedules \/ heap' # heap))
       => (/\ lastOp'.calls # <<>>
           /\ CheckedBeforeWrite(lastOp'.calls))]_vars

\* the handler went through its prompts and ran its overlap check
Edited ==
    /\ lastOp.op = "edit_schedule_interactive"
    /\ lastOp.outcome \in {"updated", "cancelled"}

\* C23: the check at the end of an edit of the only record under its key
\* returns no conflict, whatever the edit changed, the name included.
C23_EditNeverOverlapsItself ==
    (Edited /\ Len(schedules[lastOp.date]) = 1) => lastOp.overlaps = <<>>

\* C24: an edit that ends at "Edit cancelled" leaves every list and every
\* dict of the store as it found them.
C24_CancelledEditChangesNothing ==
    [][(/\ lastOp'.op = "edit_schedule_interactive"
        /\ lastOp'.outcome = "cancelled")
       => (schedules' = schedules /\ heap' = heap)]_vars

\* the record at a position of the store
RecordAt(store, h, key, i) == h[store[key][i]]

\* C26: an edit changes the record at the position it edits and the record
\* at no other position of the store, under another key or in the same list.
C26_EditChangesOnePosition ==
    [][(/\ lastOp'.op = "edit_schedule_interactive"
        /\ lastOp'.ref # 0)
       => \A key \in DOMAIN schedules : \A i \in 1..Len(schedules[key]) :
             (key # lastOp'.date \/ i # lastOp'.index + 1)
                => RecordAt(schedules', heap', key, i) = RecordAt(schedules, heap, key, i)]_vars

----------------------------------------------------------------------------
(* The source of a derivation *)

\* the key a run of the template handler read its records from; the local
\* device file is no key
SourceKey(op) ==
    IF op.template_choice = <<"2">> THEN op.source_date ELSE DefaultKey

ReadFromKey(op) == op.template_choice \in { <<"1">>, <<"2">> }

\* the list of a key and the fields of its records are the same after the step
KeyKept(key) ==
    /\ key \in DOMAIN schedules'
    /\ schedules'[key] = schedules[key]
    /\ RowsOf(schedules', heap', key) = RowsOf(schedules, heap, key)

\* the dicts the step wrote are at no position of another key
WrittenApart ==
    \A key \in DOMAIN schedules' \ {lastOp'.target_date} :
        \A i \in 1..Len(schedules'[key]), k \in 1..Len(lastOp'.written) :
            schedules'[key][i] # lastOp'.written[k]

\* the step is a derivation into a key other than the one it read
DerivesElsewhere ==
    /\ lastOp'.op = "create_from_template_interactive"
    /\ lastOp'.outcome \in {"created", "replaced", "merged"}
    /\ ReadFromKey(lastOp')
    /\ SourceKey(lastOp') # lastOp'.target_date

\* the step edits a record the derivation before it wrote into another key
\* than the one it read
EditsDerived ==
    /\ lastOp.op = "create_from_template_interactive"
    /\ lastOp.outcome \in {"created", "replaced", "merged"}
    /\ ReadFromKey(lastOp)
    /\ SourceKey(lastOp) # lastOp.target_date
    /\ lastOp'.op = "edit_schedule_interactive"
    /\ lastOp'.date = lastOp.target_date
    /\ \E k \in 1..Len(lastOp.written) : lastOp.written[k] = lastOp'.ref

\* C25: a derivation into another key leaves the list of its source key and
\* every field of the source records as they were, whatever the transform
\* and whichever of create, replace and merge, and the dicts it writes are
\* dicts of the target key alone; the local device file read as a source is
\* left as it was; and an edit of a derived record leaves the source key's
\* records as they were.
C25_DerivationKeepsSource ==
    [][/\ DerivesElsewhere => (KeyKept(SourceKey(lastOp')) /\ WrittenApart)
       /\ (lastOp'.op = "create_from_template_interactive") => localFile' = localFile
       /\ EditsDerived => KeyKept(SourceKey(lastOp))]_vars

\* a record derived from the 7:00 record A of default.csv into 2025-12-24 was
\* renamed Z by an edit, and default still holds A
C25_Witness ==
    /\ lastOp.op = "edit_schedule_interactive"
    /\ lastOp.outcome \in {"updated", "cancelled"}
    /\ lastOp.date = Date1224
    /\ lastOp.original[1].name = <<"A">>
    /\ lastOp.original[1].start_hour = <<"7">>
    /\ heap[lastOp.ref].name = <<"Z">>
    /\ DefaultKey \in DOMAIN schedules
    /\ RowsOf(schedules, heap, DefaultKey)[1].name = <<"A">>
    /\ RowsOf(schedules, heap, DefaultKey)[1].days = <<"1", "2", "3", "4", "5">>

============================================================================
